---- MODULE Spec2Model ----
(***************************************************************************)
(* agepad: an editor for age-encrypted files that keeps the plaintext in   *)
(* memory only.  The module models the editor's Update handler (tui), the  *)
(* age helpers it calls (age), the validator (validator), and the rotate   *)
(* and run subcommands (cmd/agepad).                                       *)
(*                                                                         *)
(* A text is a sequence of one-character strings.  A path is a sequence of *)
(* components, a component a sequence of its dot-separated segments:       *)
(* secrets/app.env.age is << <<"secrets">>, <<"app","env","age">> >>.      *)
(***************************************************************************)
EXTENDS Integers, Sequences, FiniteSets, TLC

\* ------------------------------------------------------------------ bounds

\* How many of AllTexts the editor's buffer and the files' plaintexts range over.
NumTexts == 3

\* ------------------------------------------------------------------- texts

AllTexts ==
  << <<"A", "=", "1">>,
     <<"1">>,
     <<"A", " ", "B", "=", "1">>,
     <<"h", "i">>,
     <<>>,
     <<"A", "=", "1", "\n", "=", "x">> >>

Min(a, b) == IF a < b THEN a ELSE b

Texts == { AllTexts[i] : i \in 1..Min(NumTexts, Len(AllTexts)) }

\* unicode.IsSpace, on the characters the texts use
IsSpace(c) == c \in {" ", "\t", "\n", "\r"}

RECURSIVE TrimLeft(_)
TrimLeft(s) ==
  IF s # <<>> /\ IsSpace(Head(s)) THEN TrimLeft(Tail(s)) ELSE s

RECURSIVE TrimRight(_)
TrimRight(s) ==
  IF s # <<>> /\ IsSpace(s[Len(s)]) THEN TrimRight(SubSeq(s, 1, Len(s) - 1)) ELSE s

\* strings.TrimSpace
TrimSpace(s) == TrimRight(TrimLeft(s))

\* strings.HasPrefix(s, c) for a one-character prefix
HasPrefix(s, c) == s # <<>> /\ Head(s) = c

\* strings.Contains(s, c) for a one-character needle
Contains(s, c) == \E i \in 1..Len(s) : s[i] = c

\* strings.ContainsAny(s, chars)
ContainsAny(s, chars) == \E i \in 1..Len(s) : s[i] \in chars

\* index of the first c in s, 0 when there is none
IndexOf(s, c) ==
  IF Contains(s, c) THEN CHOOSE i \in 1..Len(s) : s[i] = c /\ \A j \in 1..(i - 1) : s[j] # c
  ELSE 0

\* strings.SplitN(s, c, 2)[0]
BeforeFirst(s, c) == IF Contains(s, c) THEN SubSeq(s, 1, IndexOf(s, c) - 1) ELSE s

\* strings.SplitN(s, c, 2)[1], for s that contains c
AfterFirst(s, c) == SubSeq(s, IndexOf(s, c) + 1, Len(s))

\* bufio.ScanLines drops one trailing carriage return of a line
DropCR(line) ==
  IF line # <<>> /\ line[Len(line)] = "\r" THEN SubSeq(line, 1, Len(line) - 1) ELSE line

RECURSIVE ScanFrom(_, _)
ScanFrom(s, cur) ==
  IF s = <<>> THEN (IF cur = <<>> THEN <<>> ELSE <<DropCR(cur)>>)
  ELSE IF Head(s) = "\n" THEN <<DropCR(cur)>> \o ScanFrom(Tail(s), <<>>)
  ELSE ScanFrom(Tail(s), Append(cur, Head(s)))

\* the lines bufio.Scanner yields for s: split at "\n", no token for the
\* empty remainder after a final newline
ScanLines(s) == ScanFrom(s, <<>>)

\* ---------------------------------------------------------------- validator

NoErr == [kind |-> "nil", line |-> 0]

Err(k) == [kind |-> k, line |-> 0]

ErrAt(k, n) == [kind |-> k, line |-> n]

\* looksLikeDotEnv: some non-blank, non-comment line holds "=" past position 0
looksLikeDotEnv(s) ==
  LET ls == ScanLines(s)
      live == { i \in 1..Len(ls) :
                  LET line == TrimSpace(ls[i]) IN line # <<>> /\ ~HasPrefix(line, "#") }
      matches == { i \in live :
                  LET line == TrimSpace(ls[i]) IN Contains(line, "=") /\ ~HasPrefix(line, "=") }
  IN  Cardinality(live) > 0 /\ Cardinality(matches) > 0

\* what validateDotEnv says of line number n, NoErr when the line passes
DotEnvLine(raw, n) ==
  LET t == TrimSpace(raw)
      key == TrimSpace(BeforeFirst(t, "="))
  IN  IF t = <<>> \/ HasPrefix(t, "#") THEN NoErr
      ELSE IF ~Contains(t, "=") \/ HasPrefix(t, "=") THEN ErrAt(".env parse error", n)
      ELSE IF key = <<>> \/ ContainsAny(key, {" ", "\t", "\"", "'"})
           THEN ErrAt(".env invalid key", n)
      ELSE NoErr

validateDotEnvCountsLive(s) ==
  LET ls == SelectSeq(ScanLines(s),
                      LAMBDA l : TrimSpace(l) # <<>> /\ ~HasPrefix(TrimSpace(l), "#"))
      bad == { i \in 1..Len(ls) : DotEnvLine(ls[i], i) # NoErr }
  IN  IF bad = {} THEN NoErr
      ELSE LET first == CHOOSE i \in bad : \A j \in bad : i <= j
           IN  DotEnvLine(ls[first], first)

\* validateDotEnv: the error of the first failing line
validateDotEnv(s) ==
  LET ls == ScanLines(s)
      bad == { i \in 1..Len(ls) : DotEnvLine(ls[i], i) # NoErr }
  IN  IF bad = {} THEN NoErr
      ELSE LET first == CHOOSE i \in bad : \A j \in bad : i <= j
           IN  DotEnvLine(ls[first], first)

\* The texts of AllTexts that encoding/json's Decoder decodes a value from.
JSONAccepted == { <<"1">> }

\* validateJSON
validateJSON(s) == IF s \in JSONAccepted THEN NoErr ELSE Err("JSON parse error")

\* The texts of AllTexts that yaml.v3 unmarshals (each is a plain scalar or empty).
YAMLAccepted ==
  { <<"A", "=", "1">>, <<"h", "i">>, <<"A", " ", "B", "=", "1">>, <<"1">>, <<>>,
    <<"A", "=", "1", "\n", "=", "x">> }

\* validateYAML
validateYAML(s) == IF s \in YAMLAccepted THEN NoErr ELSE Err("YAML parse error")

\* The texts of AllTexts that go-toml unmarshals (key = value lines, or empty).
TOMLAccepted == { <<"A", "=", "1">>, <<>> }

\* validateTOML
validateTOML(s) == IF s \in TOMLAccepted THEN NoErr ELSE Err("TOML parse error")

ToLowerNothing(seg) == seg

\* strings.ToLower on the extensions the model uses
ToLower(seg) ==
  CASE seg = "JSON" -> "json"
    [] seg = "AGE" -> "age"
    [] seg = "Age" -> "age"
    [] OTHER -> seg

\* the last component of a path
Base(path) == path[Len(path)]

\* filepath.Dir
Dir(path) == SubSeq(path, 1, Len(path) - 1)

ExtFirstDot(path) ==
  LET b == Base(path) IN IF Len(b) > 1 THEN b[2] ELSE ""

\* filepath.Ext: the suffix from the last dot of the last component, "" if no dot
Ext(path) ==
  LET b == Base(path) IN IF Len(b) > 1 THEN b[Len(b)] ELSE ""

\* ValidateByExt
ValidateByExt(filename, content) ==
  LET ext == ToLower(Ext(filename))
  IN  IF ext = "json" THEN validateJSON(content)
      ELSE IF ext \in {"yaml", "yml"} THEN validateYAML(content)
      ELSE IF ext = "toml" THEN validateTOML(content)
      ELSE IF looksLikeDotEnv(content) THEN validateDotEnv(content)
      ELSE NoErr

\* ---------------------------------------------------------------------- age

Keys == {"k1", "k2"}

\* age.Encrypt: a binary envelope of the plaintext to the recipients; it
\* refuses an empty recipient list
AgeEncrypt(plaintext, recips) ==
  IF recips = {} THEN [ok |-> FALSE, data |-> [kind |-> "none"]]
  ELSE [ok |-> TRUE, data |-> [kind |-> "binary", pt |-> plaintext, to |-> recips]]

\* armor.NewWriter ... Close: the ASCII armor around a binary envelope
Armor(bin) == [kind |-> "armored", pt |-> bin.pt, to |-> bin.to]

\* armor.NewReader: reads the envelope under the armor, fails on unarmored data
ArmorRead(data) ==
  IF data.kind = "armored"
  THEN [ok |-> TRUE, data |-> [kind |-> "binary", pt |-> data.pt, to |-> data.to]]
  ELSE [ok |-> FALSE, data |-> data]

\* age.Decrypt on a reader of `data`: it parses a binary header (armored data
\* is not one), and needs an identity that matches a recipient stanza
AgeDecrypt(data, ids) ==
  IF ids = {} THEN [ok |-> FALSE, pt |-> <<>>]
  ELSE IF data.kind # "binary" THEN [ok |-> FALSE, pt |-> <<>>]
  ELSE IF data.to \cap ids = {} THEN [ok |-> FALSE, pt |-> <<>>]
  ELSE [ok |-> TRUE, pt |-> data.pt]

\* EncryptToMemory
EncryptToMemory(plaintext, recips, useArmor) ==
  LET e == AgeEncrypt(plaintext, recips)
  IN  IF ~e.ok THEN e
      ELSE IF useArmor THEN [ok |-> TRUE, data |-> Armor(e.data)]
      ELSE e

\* ------------------------------------------------------------------ the disk

NoFile == [kind |-> "absent"]

\* os.CreateTemp(dir, ".agepad-tmp-*"): the one temp name of a directory
TmpPath(dir) == Append(dir, <<"", "agepad-tmp-*">>)

IsTmp(path) == Base(path) = <<"", "agepad-tmp-*">>

\* the steps of AtomicEncryptWrite at which the file system can fail
FsFaults == {"none", "create", "write", "sync", "close", "rename"}

FsOp(op, path, data) == [op |-> op, path |-> path, data |-> data]

DecryptToMemoryNoArmor(d, cipherPath, ids) ==
  IF d[cipherPath].kind \notin {"binary", "armored"} THEN [ok |-> FALSE, pt |-> <<>>]
  ELSE AgeDecrypt(d[cipherPath], ids)

\* DecryptToMemory on the file at cipherPath: open, detect the armor by
\* reading one byte through an armor reader, decrypt
DecryptToMemory(d, cipherPath, ids) ==
  LET f == d[cipherPath]
      reader == IF ArmorRead(f).ok THEN ArmorRead(f).data ELSE f
  IN  IF f.kind \notin {"binary", "armored"} THEN [ok |-> FALSE, pt |-> <<>>]
      ELSE AgeDecrypt(reader, ids)

RemoveNothing(d, path) == d

\* os.Remove
Remove(d, path) == [d EXCEPT ![path] = NoFile]

RenameLosesData(d, from, to) == [d EXCEPT ![from] = NoFile]

\* os.Rename(from, to)
Rename(d, from, to) == [d EXCEPT ![to] = d[from], ![from] = NoFile]

\* writing `data` to the open file at path
WriteFile(d, path, data) == [d EXCEPT ![path] = data]

EncryptIntoPlain(b, recips, useArmor) == [ok |-> TRUE, data |-> [kind |-> "plain", pt |-> b]]

\* AtomicEncryptWrite, the encryption into the temp file: through the armor
\* writer when useArmor, both closed inner then outer
EncryptInto(b, recips, useArmor) ==
  LET e == AgeEncrypt(b, recips)
  IN  IF ~e.ok THEN e
      ELSE IF useArmor THEN [ok |-> TRUE, data |-> Armor(e.data)]
      ELSE e

AtomicEncryptWriteTornRename(d, dstPath, b, recips, useArmor, fault) ==
  LET tmp == TmpPath(Dir(dstPath))
      e == EncryptInto(b, recips, useArmor)
      d1 == WriteFile(d, tmp, [kind |-> "empty"])
      d2 == WriteFile(d1, tmp, e.data)
      created == <<FsOp("create", tmp, [kind |-> "empty"])>>
      written == Append(created, FsOp("write", tmp, e.data))
      synced == Append(written, FsOp("sync", tmp, e.data))
      closed == Append(synced, FsOp("close", tmp, e.data))
      renamed == Append(closed, FsOp("rename", dstPath, e.data))
      removed(log) == Append(log, FsOp("remove", tmp, NoFile))
  IN  IF fault = "create" THEN [ok |-> FALSE, disk |-> d, log |-> <<>>]
      ELSE IF ~e.ok THEN [ok |-> FALSE, disk |-> Remove(d1, tmp), log |-> removed(created)]
      ELSE IF fault = "write" THEN
        [ok |-> FALSE, disk |-> Remove(d1, tmp), log |-> removed(created)]
      ELSE IF fault = "sync" THEN
        [ok |-> FALSE, disk |-> Remove(d2, tmp), log |-> removed(written)]
      ELSE IF fault = "close" THEN
        [ok |-> FALSE, disk |-> Remove(d2, tmp), log |-> removed(synced)]
      ELSE IF fault = "rename" THEN
        [ok |-> FALSE, disk |-> Remove(Rename(d2, tmp, dstPath), tmp), log |-> removed(closed)]
      ELSE
        [ok |-> TRUE, disk |-> Remove(Rename(d2, tmp, dstPath), tmp), log |-> removed(renamed)]

\* AtomicEncryptWrite: temp file in the destination's directory, encrypt into
\* it, sync, close, rename; the deferred remove runs on every return after the
\* temp file was created.  `fault` is the step the file system fails at.
\* The result holds the disk afterwards and the file operations performed.
AtomicEncryptWrite(d, dstPath, b, recips, useArmor, fault) ==
  LET tmp == TmpPath(Dir(dstPath))
      e == EncryptInto(b, recips, useArmor)
      d1 == WriteFile(d, tmp, [kind |-> "empty"])
      d2 == WriteFile(d1, tmp, e.data)
      created == <<FsOp("create", tmp, [kind |-> "empty"])>>
      written == Append(created, FsOp("write", tmp, e.data))
      synced == Append(written, FsOp("sync", tmp, e.data))
      closed == Append(synced, FsOp("close", tmp, e.data))
      renamed == Append(closed, FsOp("rename", dstPath, e.data))
      removed(log) == Append(log, FsOp("remove", tmp, NoFile))
  IN  IF fault = "create" THEN [ok |-> FALSE, disk |-> d, log |-> <<>>]
      ELSE IF ~e.ok THEN [ok |-> FALSE, disk |-> Remove(d1, tmp), log |-> removed(created)]
      ELSE IF fault = "write" THEN
        [ok |-> FALSE, disk |-> Remove(d1, tmp), log |-> removed(created)]
      ELSE IF fault = "sync" THEN
        [ok |-> FALSE, disk |-> Remove(d2, tmp), log |-> removed(written)]
      ELSE IF fault = "close" THEN
        [ok |-> FALSE, disk |-> Remove(d2, tmp), log |-> removed(synced)]
      ELSE IF fault = "rename" THEN
        [ok |-> FALSE, disk |-> Remove(d2, tmp), log |-> removed(closed)]
      ELSE
        [ok |-> TRUE, disk |-> Remove(Rename(d2, tmp, dstPath), tmp), log |-> removed(renamed)]

\* ------------------------------------------------------------- the file tree

Root == << <<"secrets">> >>

\* secrets/app.env.age
PApp == Append(Root, <<"app", "env", "age">>)

\* secrets/b.AGE
PUpper == Append(Root, <<"b", "AGE">>)

\* secrets/cfg.json
PCfg == Append(Root, <<"cfg", "json">>)

\* secrets/old.age, a directory
POld == Append(Root, <<"old", "age">>)

\* secrets/old.age/c.age
PNested == Append(POld, <<"c", "age">>)

\* secrets/cfg.json.age
PJsonAge == Append(Root, <<"cfg", "json", "age">>)

\* the files the editor is opened on
EditFiles == { PApp, PCfg }

\* the tree under Root in the lexical order filepath.WalkDir visits it
WalkOrder == <<PApp, PUpper, PCfg, POld, PNested>>

FsPaths ==
  { WalkOrder[i] : i \in 1..Len(WalkOrder) } \cup { TmpPath(Root), TmpPath(POld), PJsonAge }

DirEntry == [kind |-> "dir"]

IsFile(c) == c.kind \notin {"absent", "dir"}

\* every envelope a file can hold
Envelopes ==
  { [kind |-> k, pt |-> t, to |-> r] :
      k \in {"binary", "armored"}, t \in Texts, r \in (SUBSET Keys) \ {{}} }

\* The identity sets a session loads: one key, or both (the key names are
\* interchangeable, so {"k2"} alone adds nothing).
LoadedIdentities == { {"k1"}, Keys }

\* ------------------------------------------------------------------ the state

VARIABLES
  mode,            \* the subcommand the process runs: "edit", "rotate" or "run"
  cfg,             \* model.Config: FilePath, Armor, ViewOnly
  identities,      \* the identities loaded (Model.identities; ids in runRotate, runEnvExec)
  recips,          \* the recipients loaded (Model.recips; newRecips in runRotate)
  ta,              \* Model.ta.Value(), the buffer
  orig,            \* Model.orig
  status,          \* Model.status
  err,             \* Model.err
  changed,         \* Model.changed
  lastSnapshot,    \* Model.lastSnapshot
  pendingConfirm,  \* Model.pendingConfirm
  quit,            \* Update returned tea.Quit: its QuitMsg is on the way to the event loop
  disk,            \* path -> file content
  fsLog,           \* the file operations of the last event
  files,           \* runRotate: the matched files
  idx,             \* runRotate: the position of the loop in files
  ok,              \* runRotate: files re-encrypted
  fail,            \* runRotate: files that failed
  args,            \* runEnvExec: cmd.Args().Slice()
  execEnv,         \* runEnvExec: the environment handed to syscall.Exec
  pc,              \* where the process is
  exitCode,        \* the exit status of the process, -1 while it runs
  lastEvent,       \* history: the kind of the last event handled
  evParity,        \* history: the number of events handled, modulo 2
  pendingBy,       \* history: the request that set pendingConfirm, "none" when clear
  disk0,           \* history: runRotate, the disk when the job started (<<>> otherwise)
  attempts,        \* history: runRotate, the files attempted so far and their outcomes
  prevJob,         \* history: runRotate, the attempts of the previous run of the job
  ticks,           \* the snapshotTick commands in flight (tea.Tick)
  keyFiles         \* the identities file and the recipients file: "ok", "missing", "unparsable"

cfgVars == <<mode, cfg, identities, recips, keyFiles>>

edVars == <<ta, orig, status, err, changed, lastSnapshot, pendingConfirm, quit, ticks>>

histVars == <<lastEvent, evParity, pendingBy, disk0, attempts, prevJob>>

jobVars == <<files, idx, ok, fail, args, execEnv, pc, exitCode>>

vars == <<cfgVars, edVars, jobVars, disk, fsLog, histVars>>

\* the Model value the handlers work on
M ==
  [ta |-> ta, orig |-> orig, status |-> status, err |-> err, changed |-> changed,
   lastSnapshot |-> lastSnapshot, pendingConfirm |-> pendingConfirm]

\* NewModel
NewModel(plaintext) ==
  [ta |-> plaintext, orig |-> plaintext, status |-> "Opened", err |-> NoErr,
   changed |-> FALSE, lastSnapshot |-> plaintext, pendingConfirm |-> FALSE]

FocusedAlways(c) == TRUE

\* NewModel blurs the textarea of a view-only session
Focused(c) == ~c.ViewOnly

\* textarea.Update: a blurred textarea ignores the message and keeps its value;
\* a focused one ends with the value `typed` (its own value for a message
\* that edits nothing)
TextareaUpdate(focused, value, typed) == IF focused THEN typed ELSE value

\* ---------------------------------------------------------------- the handlers


\* Update, the ctrl+q and esc case
UpdateQuit(m, c) ==
  IF m.changed /\ ~c.ViewOnly /\ ~m.pendingConfirm
  THEN [m |-> [m EXCEPT !.status = "Unsaved changes; press Ctrl+Q again",
                        !.pendingConfirm = TRUE],
        quit |-> FALSE]
  ELSE [m |-> m, quit |-> TRUE]

\* difflib.SplitLines: split after each "\n", then a "\n" is added to the last
RECURSIVE SplitAfterNL(_, _)
SplitAfterNL(s, cur) ==
  IF s = <<>> THEN <<cur>>
  ELSE IF Head(s) = "\n" THEN <<Append(cur, "\n")>> \o SplitAfterNL(Tail(s), <<>>)
  ELSE SplitAfterNL(Tail(s), Append(cur, Head(s)))

SplitLines(s) ==
  LET ls == SplitAfterNL(s, <<>>)
  IN  [ls EXCEPT ![Len(ls)] = Append(ls[Len(ls)], "\n")]

\* unifiedDiff(a, b) is the empty string exactly when both split into the same lines
DiffIsEmpty(a, b) == SplitLines(a) = SplitLines(b)

UpdateDiffClearsErr(m) ==
  [m EXCEPT !.status = IF DiffIsEmpty(m.orig, m.ta) THEN "No changes to show"
                       ELSE "Diff preview",
            !.err = NoErr,
            !.pendingConfirm = FALSE]

UpdateDiffKeepsGate(m) ==
  [m EXCEPT !.status = IF DiffIsEmpty(m.orig, m.ta) THEN "No changes to show"
                       ELSE "Diff preview"]

\* Update, the ctrl+d case
UpdateDiff(m) ==
  [m EXCEPT !.status = IF DiffIsEmpty(m.orig, m.ta) THEN "No changes to show"
                       ELSE "Diff preview",
            !.pendingConfirm = FALSE]

AbortSaveDropsErr(m, e, st) == [m EXCEPT !.status = st, !.pendingConfirm = FALSE]

AbortSaveKeepsGate(m, e, st) == [m EXCEPT !.err = e, !.status = st]

\* Update, ctrl+s: an aborted save records the error and clears the gate
AbortSave(m, e, st) == [m EXCEPT !.err = e, !.status = st, !.pendingConfirm = FALSE]

NeedsConfirmAlways(m) == ~m.pendingConfirm

\* Update, ctrl+s step 3: a changed buffer needs a second request
NeedsConfirm(m) == m.ta # m.orig /\ ~m.pendingConfirm

AfterWriteKeepsGate(m, buf, success) ==
  IF success
  THEN [m EXCEPT !.err = NoErr, !.status = "Saved", !.orig = buf, !.changed = FALSE,
                 !.pendingConfirm = FALSE]
  ELSE [m EXCEPT !.err = Err("write"), !.status = "Save failed"]

AfterWriteKeepsOrig(m, buf, success) ==
  IF success
  THEN [m EXCEPT !.err = NoErr, !.status = "Saved", !.changed = FALSE,
                 !.pendingConfirm = FALSE]
  ELSE [m EXCEPT !.err = Err("write"), !.status = "Save failed", !.pendingConfirm = FALSE]

AfterWriteAlwaysSetsOrig(m, buf, success) ==
  IF success
  THEN [m EXCEPT !.err = NoErr, !.status = "Saved", !.orig = buf, !.changed = FALSE,
                 !.pendingConfirm = FALSE]
  ELSE [m EXCEPT !.err = Err("write"), !.status = "Save failed", !.orig = buf,
                 !.pendingConfirm = FALSE]

\* Update, ctrl+s step 4: the model after AtomicEncryptWrite returned
AfterWrite(m, buf, success) ==
  IF success
  THEN [m EXCEPT !.err = NoErr, !.status = "Saved", !.orig = buf, !.changed = FALSE,
                 !.pendingConfirm = FALSE]
  ELSE [m EXCEPT !.err = Err("write"), !.status = "Save failed", !.pendingConfirm = FALSE]

\* Update, ctrl+s step 2: encrypt to memory, then age.Decrypt what came out
Preflight(buf, rcp, ids, armor) ==
  LET enc == EncryptToMemory(buf, rcp, armor)
  IN  IF ~enc.ok THEN Err("preflight encrypt")
      ELSE IF ~AgeDecrypt(enc.data, ids).ok THEN Err("preflight decrypt")
      ELSE NoErr

UpdateSavePreflightFirst(m, c, ids, rcp, d, fault) ==
  LET buf == m.ta
      v == ValidateByExt(c.FilePath, buf)
      p == Preflight(buf, rcp, ids, c.Armor)
      w == AtomicEncryptWrite(d, c.FilePath, buf, rcp, c.Armor, fault)
  IN  IF c.ViewOnly THEN
        [m |-> [m EXCEPT !.status = "View-only mode: saving disabled."],
         disk |-> d, log |-> <<>>]
      ELSE IF p = Err("preflight encrypt") THEN
        [m |-> AbortSave(m, p, "Save aborted."), disk |-> d, log |-> <<>>]
      ELSE IF p # NoErr THEN
        [m |-> AbortSave(m, p, "Save aborted. Update recipients or identities."),
         disk |-> d, log |-> <<>>]
      ELSE IF v # NoErr THEN
        [m |-> AbortSave(m, v, "Validation failed; not saved."), disk |-> d, log |-> <<>>]
      ELSE IF NeedsConfirm(m) THEN
        [m |-> [m EXCEPT !.status = "About to save. Press Ctrl+S again to confirm.",
                         !.pendingConfirm = TRUE],
         disk |-> d, log |-> <<>>]
      ELSE [m |-> AfterWrite(m, buf, w.ok), disk |-> w.disk, log |-> w.log]

\* Update, the ctrl+s case
UpdateSave(m, c, ids, rcp, d, fault) ==
  LET buf == m.ta
      v == ValidateByExt(c.FilePath, buf)
      p == Preflight(buf, rcp, ids, c.Armor)
      w == AtomicEncryptWrite(d, c.FilePath, buf, rcp, c.Armor, fault)
  IN  IF c.ViewOnly THEN
        [m |-> [m EXCEPT !.status = "View-only mode: saving disabled."],
         disk |-> d, log |-> <<>>]
      ELSE IF v # NoErr THEN
        [m |-> AbortSave(m, v, "Validation failed; not saved."), disk |-> d, log |-> <<>>]
      ELSE IF p = Err("preflight encrypt") THEN
        [m |-> AbortSave(m, p, "Save aborted."), disk |-> d, log |-> <<>>]
      ELSE IF p # NoErr THEN
        [m |-> AbortSave(m, p, "Save aborted. Update recipients or identities."),
         disk |-> d, log |-> <<>>]
      ELSE IF NeedsConfirm(m) THEN
        [m |-> [m EXCEPT !.status = "About to save. Press Ctrl+S again to confirm.",
                         !.pendingConfirm = TRUE],
         disk |-> d, log |-> <<>>]
      ELSE [m |-> AfterWrite(m, buf, w.ok), disk |-> w.disk, log |-> w.log]

UpdateKeyKeepsGate(m, c, typed) ==
  LET prev == m.ta
      now == TextareaUpdate(Focused(c), prev, typed)
  IN  IF prev # now THEN [m EXCEPT !.ta = now, !.changed = TRUE] ELSE m

UpdateKeyAlwaysResets(m, c, typed) ==
  LET prev == m.ta
      now == TextareaUpdate(Focused(c), prev, typed)
  IN  IF prev # now
      THEN [m EXCEPT !.ta = now, !.changed = TRUE, !.pendingConfirm = FALSE]
      ELSE [m EXCEPT !.pendingConfirm = FALSE]

\* Update, the fall-through to the textarea
UpdateKey(m, c, typed) ==
  LET prev == m.ta
      now == TextareaUpdate(Focused(c), prev, typed)
  IN  IF prev # now
      THEN [m EXCEPT !.ta = now, !.changed = TRUE, !.pendingConfirm = FALSE]
      ELSE m

UpdateTickClearsGate(m) == [m EXCEPT !.lastSnapshot = m.ta, !.pendingConfirm = FALSE]

\* Update, the snapshotTick case
UpdateTick(m) == [m EXCEPT !.lastSnapshot = m.ta]

\* ------------------------------------------------------------------- actions

\* the editor's variables take the fields of the Model value m
SetModel(m) ==
  /\ ta' = m.ta
  /\ orig' = m.orig
  /\ status' = m.status
  /\ err' = m.err
  /\ changed' = m.changed
  /\ lastSnapshot' = m.lastSnapshot
  /\ pendingConfirm' = m.pendingConfirm

\* no editor session (the rotate and run subcommands)
NoEditor ==
  /\ ta = <<>>
  /\ orig = <<>>
  /\ status = ""
  /\ err = NoErr
  /\ changed = FALSE
  /\ lastSnapshot = <<>>
  /\ pendingConfirm = FALSE
  /\ quit = FALSE
  /\ ticks = 0

\* no rotation and no exec (the editor)
NoJob ==
  /\ files = <<>>
  /\ idx = 0
  /\ ok = 0
  /\ fail = 0
  /\ args = <<>>
  /\ execEnv = <<>>

\* both key files are there and parse
KeyFilesOk == [ids |-> "ok", recips |-> "ok"]

\* runEditor: load the keys, decrypt the file, start the program on NewModel
InitEdit ==
  /\ mode = "edit"
  /\ keyFiles = KeyFilesOk
  /\ ticks = 1
  /\ cfg \in [FilePath : EditFiles, Armor : BOOLEAN, ViewOnly : BOOLEAN]
  /\ identities \in LoadedIdentities
  /\ recips \in (SUBSET Keys) \ {{}}
  /\ \E file \in Envelopes :
       /\ file.to = identities
       /\ disk = [p \in FsPaths |-> IF p = cfg.FilePath THEN file ELSE NoFile]
       /\ DecryptToMemory(disk, cfg.FilePath, identities).ok
       /\ LET m == NewModel(DecryptToMemory(disk, cfg.FilePath, identities).pt)
          IN  /\ ta = m.ta
              /\ orig = m.orig
              /\ status = m.status
              /\ err = m.err
              /\ changed = m.changed
              /\ lastSnapshot = m.lastSnapshot
              /\ pendingConfirm = m.pendingConfirm
  /\ quit = FALSE
  /\ NoJob
  /\ pc = "editing"
  /\ exitCode = -1
  /\ fsLog = <<>>
  /\ lastEvent = "none"
  /\ evParity = 0
  /\ pendingBy = "none"
  /\ disk0 = <<>>
  /\ attempts = <<>>
  /\ prevJob = <<>>

\* the states a key file can be in; `identities` and `recips` hold the keys a
\* readable, well-formed file lists
KeyFileStates == {"ok", "missing", "unparsable"}

LoadIdentitiesIgnoresParse(st, keys) ==
  IF st = "missing" THEN [ok |-> FALSE, keys |-> {}]
  ELSE [ok |-> TRUE, keys |-> keys]

\* LoadIdentities: os.ReadFile, then age.ParseIdentities, which refuses a file
\* without keys
LoadIdentities(st, keys) ==
  IF st = "missing" THEN [ok |-> FALSE, keys |-> {}]
  ELSE IF st = "unparsable" \/ keys = {} THEN [ok |-> FALSE, keys |-> {}]
  ELSE [ok |-> TRUE, keys |-> keys]

LoadRecipientsAllowsNone(st, keys) ==
  IF st = "missing" THEN [ok |-> FALSE, keys |-> {}]
  ELSE IF st = "unparsable" THEN [ok |-> FALSE, keys |-> {}]
  ELSE [ok |-> TRUE, keys |-> keys]

\* LoadRecipients: os.ReadFile, age.ParseRecipients, then the check for zero
\* recipients
LoadRecipients(st, keys) ==
  IF st = "missing" THEN [ok |-> FALSE, keys |-> {}]
  ELSE IF st = "unparsable" THEN [ok |-> FALSE, keys |-> {}]
  ELSE IF keys = {} THEN [ok |-> FALSE, keys |-> {}]
  ELSE [ok |-> TRUE, keys |-> keys]

\* what the target path can hold when the editor is started: nothing, a file
\* that is no age envelope, an envelope to the identities of the key file, or
\* an envelope to none of them
LoadTargets(ids) ==
  {NoFile, [kind |-> "plain"]}
    \cup { e \in Envelopes : e.to = ids \/ e.to \cap ids = {} }

\* the editor command has been invoked and runEditor has not run yet
InitLoad ==
  /\ mode = "edit"
  /\ keyFiles \in [ids : KeyFileStates, recips : KeyFileStates]
  /\ cfg \in [FilePath : EditFiles, Armor : BOOLEAN, ViewOnly : BOOLEAN]
  /\ identities \in LoadedIdentities
  /\ recips \in SUBSET Keys
  /\ \E file \in LoadTargets(identities) :
       disk = [p \in FsPaths |-> IF p = cfg.FilePath THEN file ELSE NoFile]
  /\ NoEditor
  /\ NoJob
  /\ pc = "load"
  /\ exitCode = -1
  /\ fsLog = <<>>
  /\ lastEvent = "none"
  /\ evParity = 0
  /\ pendingBy = "none"
  /\ disk0 = <<>>
  /\ attempts = <<>>
  /\ prevJob = <<>>

\* runEditor: os.Stat on the identities path, LoadIdentities, LoadRecipients,
\* DecryptToMemory; an error of any of them is returned to main, which exits
\* with 1; otherwise the program starts on NewModel
LoadEditor ==
  /\ mode = "edit" /\ pc = "load"
  /\ LET ids == LoadIdentities(keyFiles.ids, identities)
         rs == LoadRecipients(keyFiles.recips, recips)
         dec == DecryptToMemory(disk, cfg.FilePath, ids.keys)
     IN  IF keyFiles.ids = "missing" \/ ~ids.ok \/ ~rs.ok \/ ~dec.ok
         THEN /\ pc' = "done"
              /\ exitCode' = 1
              /\ UNCHANGED edVars
         ELSE /\ pc' = "editing"
              /\ exitCode' = exitCode
              /\ SetModel(NewModel(dec.pt))
              /\ quit' = FALSE
              /\ ticks' = 1
  /\ UNCHANGED <<cfgVars, files, idx, ok, fail, args, execEnv, disk, fsLog, histVars>>

\* the Bubble Tea program is running: Update is called for each message the
\* event loop receives. A tea.Quit command that Update returned does not end
\* the loop: the command runs on another goroutine and sends a QuitMsg, and
\* the messages the loop receives before it are handled as usual
Running == mode = "edit" /\ pc = "editing"

\* a ctrl+q or esc key press
QuitKey ==
  /\ Running
  /\ LET r == UpdateQuit(M, cfg)
     IN  /\ SetModel(r.m)
         /\ quit' = (quit \/ r.quit)
         /\ pendingBy' = IF r.m.pendingConfirm /\ ~pendingConfirm THEN "quit" ELSE pendingBy
  /\ lastEvent' = "quit"
  /\ evParity' = 1 - evParity
  /\ UNCHANGED <<disk0, attempts, prevJob, ticks>>
  /\ fsLog' = <<>>
  /\ UNCHANGED <<cfgVars, jobVars, disk>>

\* a ctrl+d key press
DiffKey ==
  /\ Running
  /\ SetModel(UpdateDiff(M))
  /\ pendingBy' = "none"
  /\ lastEvent' = "diff"
  /\ evParity' = 1 - evParity
  /\ UNCHANGED <<disk0, attempts, prevJob, ticks>>
  /\ fsLog' = <<>>
  /\ UNCHANGED <<cfgVars, jobVars, quit, disk>>

\* the file system can fail a save only if the save performs file operations
SaveFaults ==
  IF UpdateSave(M, cfg, identities, recips, disk, "none").log = <<>> THEN {"none"}
  ELSE FsFaults

\* a ctrl+s key press; the file system fails at `fault` if the save gets there
SaveKey ==
  /\ Running
  /\ \E fault \in SaveFaults :
       LET r == UpdateSave(M, cfg, identities, recips, disk, fault)
       IN  /\ SetModel(r.m)
           /\ disk' = r.disk
           /\ fsLog' = r.log
           /\ pendingBy' = IF ~r.m.pendingConfirm THEN "none"
                           ELSE IF ~pendingConfirm THEN "save" ELSE pendingBy
  /\ lastEvent' = "save"
  /\ evParity' = 1 - evParity
  /\ UNCHANGED <<disk0, attempts, prevJob, ticks>>
  /\ UNCHANGED <<cfgVars, jobVars, quit>>

\* any other key or message: the textarea handles it and ends with `typed`
OtherKey ==
  /\ Running
  /\ \E typed \in Texts :
       LET m == UpdateKey(M, cfg, typed)
       IN  /\ SetModel(m)
           /\ lastEvent' = IF m.ta # ta THEN "edit" ELSE "key"
           /\ pendingBy' = IF m.pendingConfirm THEN pendingBy ELSE "none"
  /\ evParity' = 1 - evParity
  /\ UNCHANGED <<disk0, attempts, prevJob, ticks>>
  /\ fsLog' = <<>>
  /\ UNCHANGED <<cfgVars, jobVars, quit, disk>>

\* the periodic snapshotTick: the handler consumes the tick and returns the
\* command for the next one
Tick ==
  /\ Running
  /\ ticks > 0
  /\ SetModel(UpdateTick(M))
  /\ ticks' = (ticks - 1) + 1
  /\ lastEvent' = "tick"
  /\ evParity' = 1 - evParity
  /\ UNCHANGED <<disk0, attempts, prevJob>>
  /\ fsLog' = <<>>
  /\ UNCHANGED <<cfgVars, jobVars, quit, disk, pendingBy>>

\* the event loop receives the QuitMsg of a tea.Quit command: Start returns
\* without calling Update, runEditor returns nil and the process exits with 0
QuitMsg ==
  /\ Running
  /\ quit
  /\ pc' = "done"
  /\ exitCode' = 0
  /\ lastEvent' = "exit"
  /\ fsLog' = <<>>
  /\ UNCHANGED <<cfgVars, edVars, files, idx, ok, fail, args, execEnv, disk,
                 evParity, pendingBy, disk0, attempts, prevJob>>

\* ------------------------------------------------------------------- rotate

\* strings.HasSuffix(strings.ToLower(name), ".age")
HasAgeSuffix(name) == Len(name) >= 2 /\ ToLower(name[Len(name)]) = "age"

\* the WalkDir callback of runRotate: the files, not directories, named *.age
Walk(d) == SelectSeq(WalkOrder, LAMBDA p : IsFile(d[p]) /\ HasAgeSuffix(Base(p)))

RotateOneWithPreflight(d, f, ids, newRecips, fault) ==
  LET dec == DecryptToMemory(d, f, ids)
  IN  IF ~dec.ok \/ ids \cap newRecips = {} THEN [ok |-> FALSE, disk |-> d, log |-> <<>>]
      ELSE AtomicEncryptWrite(d, f, dec.pt, newRecips, TRUE, fault)

RotateOneInPlace(d, f, ids, newRecips, fault) ==
  LET dec == DecryptToMemory(d, f, ids)
      w == AtomicEncryptWrite(d, f, dec.pt, newRecips, TRUE, fault)
  IN  IF ~dec.ok THEN [ok |-> FALSE, disk |-> d, log |-> <<>>]
      ELSE IF w.ok THEN w
      ELSE [ok |-> FALSE, disk |-> [d EXCEPT ![f] = NoFile], log |-> w.log]

RotateOneKeepsFormat(d, f, ids, newRecips, fault) ==
  LET dec == DecryptToMemory(d, f, ids)
  IN  IF ~dec.ok THEN [ok |-> FALSE, disk |-> d, log |-> <<>>]
      ELSE AtomicEncryptWrite(d, f, dec.pt, newRecips, d[f].kind = "armored", fault)

\* runRotate, one iteration of the loop over files: decrypt, then write the
\* plaintext back, armored, to the new recipients
RotateOne(d, f, ids, newRecips, fault) ==
  LET dec == DecryptToMemory(d, f, ids)
  IN  IF ~dec.ok THEN [ok |-> FALSE, disk |-> d, log |-> <<>>]
      ELSE AtomicEncryptWrite(d, f, dec.pt, newRecips, TRUE, fault)

\* what a matched file holds when the job starts
RotEnvelopes(pt) ==
  { NoFile,
    [kind |-> "binary", pt |-> pt, to |-> {"k1"}],
    [kind |-> "armored", pt |-> pt, to |-> {"k1"}],
    [kind |-> "armored", pt |-> pt, to |-> {"k2"}] }

\* runRotate after the identities and the new recipients are loaded
InitRotate ==
  /\ mode = "rotate"
  /\ keyFiles = KeyFilesOk
  /\ cfg = [FilePath |-> Root, Armor |-> TRUE, ViewOnly |-> FALSE]
  /\ identities \in LoadedIdentities
  /\ recips \in (SUBSET Keys) \ {{}}
  /\ \E a \in RotEnvelopes(AllTexts[1]), b \in RotEnvelopes(AllTexts[2]),
        c \in RotEnvelopes(AllTexts[3]) :
       disk = [p \in FsPaths |->
                 IF p = PApp THEN a
                 ELSE IF p = PUpper THEN b
                 ELSE IF p = PCfg THEN [kind |-> "plain", pt |-> AllTexts[4]]
                 ELSE IF p = POld THEN (IF c = NoFile THEN NoFile ELSE DirEntry)
                 ELSE IF p = PNested THEN c
                 ELSE NoFile]
  /\ NoEditor
  /\ NoJob
  /\ pc = "walk"
  /\ exitCode = -1
  /\ fsLog = <<>>
  /\ lastEvent = "none"
  /\ evParity = 0
  /\ pendingBy = "none"
  /\ disk0 = disk
  /\ attempts = <<>>
  /\ prevJob = <<>>

\* the rotate command has been invoked and runRotate has not run yet
InitRotateLoad ==
  /\ mode = "rotate"
  /\ keyFiles \in [ids : KeyFileStates, recips : KeyFileStates]
  /\ cfg = [FilePath |-> Root, Armor |-> TRUE, ViewOnly |-> FALSE]
  /\ identities \in LoadedIdentities
  /\ recips \in SUBSET Keys
  /\ \E a \in RotEnvelopes(AllTexts[1]), b \in RotEnvelopes(AllTexts[2]),
        c \in RotEnvelopes(AllTexts[3]) :
       disk = [p \in FsPaths |->
                 IF p = PApp THEN a
                 ELSE IF p = PUpper THEN b
                 ELSE IF p = PCfg THEN [kind |-> "plain", pt |-> AllTexts[4]]
                 ELSE IF p = POld THEN (IF c = NoFile THEN NoFile ELSE DirEntry)
                 ELSE IF p = PNested THEN c
                 ELSE NoFile]
  /\ NoEditor
  /\ NoJob
  /\ pc = "load"
  /\ exitCode = -1
  /\ fsLog = <<>>
  /\ lastEvent = "none"
  /\ evParity = 0
  /\ pendingBy = "none"
  /\ disk0 = disk
  /\ attempts = <<>>
  /\ prevJob = <<>>

\* runRotate: LoadIdentities and LoadRecipients; an error of either is
\* returned to main, which exits with 1
RotateLoad ==
  /\ mode = "rotate" /\ pc = "load"
  /\ LET ids == LoadIdentities(keyFiles.ids, identities)
         rs == LoadRecipients(keyFiles.recips, recips)
     IN  IF ~ids.ok \/ ~rs.ok
         THEN pc' = "done" /\ exitCode' = 1
         ELSE pc' = "walk" /\ exitCode' = exitCode
  /\ UNCHANGED <<cfgVars, edVars, files, idx, ok, fail, args, execEnv, disk, fsLog,
                 histVars>>

\* runRotate: the walk; it returns an error when the walk fails or finds nothing
RotateWalk ==
  /\ mode = "rotate" /\ pc = "walk"
  /\ \E walkErr \in BOOLEAN :
       IF walkErr THEN
         /\ files' = <<>>
         /\ pc' = "done"
         /\ exitCode' = 1
       ELSE
         /\ files' = Walk(disk)
         /\ pc' = IF Len(Walk(disk)) = 0 THEN "done" ELSE "loop"
         /\ exitCode' = IF Len(Walk(disk)) = 0 THEN 1 ELSE exitCode
  /\ idx' = 1
  /\ lastEvent' = "walk"
  /\ evParity' = 1 - evParity
  /\ UNCHANGED <<disk0, attempts, prevJob>>
  /\ fsLog' = <<>>
  /\ UNCHANGED <<cfgVars, edVars, ok, fail, args, execEnv, disk, pendingBy>>

\* runRotate: the loop body for files[idx]
RotateFile ==
  /\ mode = "rotate" /\ pc = "loop" /\ idx <= Len(files)
  /\ \E fault \in FsFaults :
       LET r == RotateOne(disk, files[idx], identities, recips, fault)
       IN  /\ disk' = r.disk
           /\ fsLog' = r.log
           /\ ok' = IF r.ok THEN ok + 1 ELSE ok
           /\ attempts' = Append(attempts, [file |-> files[idx], ok |-> r.ok])
           /\ fail' = IF r.ok THEN fail ELSE fail + 1
  /\ idx' = idx + 1
  /\ lastEvent' = "rotate"
  /\ evParity' = 1 - evParity
  /\ UNCHANGED <<disk0, prevJob>>
  /\ UNCHANGED <<cfgVars, edVars, files, args, execEnv, pc, exitCode, pendingBy>>

RotateDoneReportsOk ==
  /\ mode = "rotate" /\ pc = "loop" /\ idx > Len(files)
  /\ pc' = "done"
  /\ exitCode' = 0
  /\ lastEvent' = "report"
  /\ evParity' = 1 - evParity
  /\ UNCHANGED <<disk0, attempts, prevJob>>
  /\ fsLog' = <<>>
  /\ UNCHANGED <<cfgVars, edVars, files, idx, ok, fail, args, execEnv, disk, pendingBy>>

\* runRotate: after the loop, the job fails if any file failed
RotateDone ==
  /\ mode = "rotate" /\ pc = "loop" /\ idx > Len(files)
  /\ pc' = "done"
  /\ exitCode' = IF fail > 0 THEN 1 ELSE 0
  /\ lastEvent' = "report"
  /\ evParity' = 1 - evParity
  /\ UNCHANGED <<disk0, attempts, prevJob>>
  /\ fsLog' = <<>>
  /\ UNCHANGED <<cfgVars, edVars, files, idx, ok, fail, args, execEnv, disk, pendingBy>>

\* the same rotate command is run once more, with the same key files, on the
\* disk the first run left
RotateAgain ==
  /\ mode = "rotate" /\ pc = "done" /\ lastEvent = "report"
  /\ prevJob = <<>>
  /\ prevJob' = attempts
  /\ attempts' = <<>>
  /\ disk0' = disk
  /\ files' = <<>>
  /\ idx' = 0
  /\ ok' = 0
  /\ fail' = 0
  /\ pc' = "load"
  /\ exitCode' = -1
  /\ lastEvent' = "none"
  /\ evParity' = 0
  /\ fsLog' = <<>>
  /\ UNCHANGED <<cfgVars, edVars, args, execEnv, disk, pendingBy>>

\* ---------------------------------------------------------------------- run

\* the position of the first "--" of a at or after position from, 0 if none
DashFrom(a, from) ==
  IF \E i \in from..Len(a) : a[i] = "--"
  THEN CHOOSE i \in from..Len(a) : a[i] = "--" /\ \A j \in from..(i - 1) : a[j] # "--"
  ELSE 0

ParseRunAnyFiles(a) ==
  LET firstDash == DashFrom(a, 1)
      secondDash == IF firstDash = 0 THEN 0 ELSE DashFrom(a, firstDash + 1)
      fs == SubSeq(a, firstDash + 1, secondDash - 1)
  IN  IF firstDash = 0 \/ secondDash = 0 \/ secondDash = Len(a)
      THEN [ok |-> FALSE, file |-> "", command |-> <<>>]
      ELSE IF Len(fs) < 1 THEN [ok |-> FALSE, file |-> "", command |-> <<>>]
      ELSE [ok |-> TRUE, file |-> fs[1], command |-> SubSeq(a, secondDash + 1, Len(a))]

\* runEnvExec, the parse of  -- <file.age> -- <command> [args...]
ParseRun(a) ==
  LET firstDash == DashFrom(a, 1)
      secondDash == IF firstDash = 0 THEN 0 ELSE DashFrom(a, firstDash + 1)
      fs == SubSeq(a, firstDash + 1, secondDash - 1)
  IN  IF firstDash = 0 \/ secondDash = 0 \/ secondDash = Len(a)
      THEN [ok |-> FALSE, file |-> "", command |-> <<>>]
      ELSE IF Len(fs) # 1 THEN [ok |-> FALSE, file |-> "", command |-> <<>>]
      ELSE [ok |-> TRUE, file |-> fs[1], command |-> SubSeq(a, secondDash + 1, Len(a))]

\* the argument vectors the run subcommand is started with
RunArgs ==
  { <<"--", "f", "--", "cmd">>,
    <<"--", "f", "--", "cmd", "--", "x">>,
    <<"--", "f", "--">>,
    <<"--", "f", "g", "--", "cmd">>,
    <<"--", "--", "cmd">>,
    <<"--", "f">>,
    <<"f", "cmd">>,
    <<"x", "--", "f", "--", "cmd">> }

\* the file a file token names
ArgPath(tok) == IF tok = "f" THEN PApp ELSE PUpper

\* os.Environ() of the process
Environ == << <<"A", "=", "0">>, <<"C", "=", "x">> >>

Put(env, k, v) == [x \in (DOMAIN env) \cup {k} |-> IF x = k THEN v ELSE env[x]]

\* runEnvExec: the inherited entries, each split at its first "="
RECURSIVE EnvironMap(_, _)
EnvironMap(env, kvs) ==
  IF kvs = <<>> THEN env
  ELSE LET kv == Head(kvs)
       IN  IF Contains(kv, "=")
           THEN EnvironMap(Put(env, BeforeFirst(kv, "="), AfterFirst(kv, "=")), Tail(kvs))
           ELSE EnvironMap(env, Tail(kvs))

RECURSIVE MergeLinesKeepsEmptyKey(_, _)
MergeLinesKeepsEmptyKey(env, lines) ==
  IF lines = <<>> THEN env
  ELSE LET line == TrimSpace(Head(lines))
           key == TrimSpace(BeforeFirst(line, "="))
           val == AfterFirst(line, "=")
       IN  IF line = <<>> \/ HasPrefix(line, "#") \/ ~Contains(line, "=")
           THEN MergeLinesKeepsEmptyKey(env, Tail(lines))
           ELSE MergeLinesKeepsEmptyKey(Put(env, key, val), Tail(lines))

\* runEnvExec: the KEY=VAL lines of the decrypted text laid over env
RECURSIVE MergeLines(_, _)
MergeLines(env, lines) ==
  IF lines = <<>> THEN env
  ELSE LET line == TrimSpace(Head(lines))
           key == TrimSpace(BeforeFirst(line, "="))
           val == AfterFirst(line, "=")
       IN  IF line = <<>> \/ HasPrefix(line, "#") \/ ~Contains(line, "=")
           THEN MergeLines(env, Tail(lines))
           ELSE IF key # <<>> THEN MergeLines(Put(env, key, val), Tail(lines))
           ELSE MergeLines(env, Tail(lines))

\* runEnvExec: the environment of the command
MergeEnv(environ, plain) == MergeLines(EnvironMap(<<>>, environ), ScanLines(plain))

\* decrypted texts of the file the run subcommand is given: the example of the
\* documentation, ...
EnvExample ==
  << "A", "=", "1", "\n", "#", "c", "o", "m", "m", "e", "n", "t", "\n", "B", "=",
     "t", "w", "o", " ", "w", "o", "r", "d", "s", "\n", "=", "b", "a", "d", "l",
     "i", "n", "e", "\n", "N", "O", "E", "Q", "U", "A", "L", "S" >>

\* ... keys and values with spaces around them, ...
EnvSpaces ==
  << " ", "K", " ", "=", " ", "v", " ", "\n", "B", "=", "t", "w", "o", " ", " " >>

\* ... and CRLF line ends, an empty value, a blank line and a repeated key
EnvRepeated ==
  << "A", "=", "2", "\r", "\n", "D", "=", "\n", "#", "X", "=", "1", "\n", " ",
     "\n", "A", "=", "3" >>

EnvTexts == { EnvExample, EnvSpaces, EnvRepeated, <<"1">> }

\* what the file of the run subcommand can hold
RunEnvelopes ==
  { [kind |-> k, pt |-> t, to |-> r] :
      k \in {"binary", "armored"}, t \in EnvTexts, r \in {{"k1"}, {"k2"}} }

\* runEnvExec is entered with the arguments after "run"
InitRun ==
  /\ mode = "run"
  /\ keyFiles = KeyFilesOk
  /\ args \in RunArgs
  /\ cfg = [FilePath |-> ArgPath(ParseRun(args).file), Armor |-> TRUE, ViewOnly |-> FALSE]
  /\ identities \in LoadedIdentities
  /\ recips = {}
  /\ \E file \in RunEnvelopes :
       disk = [p \in FsPaths |-> IF p = PApp THEN file ELSE NoFile]
  /\ NoEditor
  /\ files = <<>>
  /\ idx = 0
  /\ ok = 0
  /\ fail = 0
  /\ execEnv = <<>>
  /\ pc = "run"
  /\ exitCode = -1
  /\ fsLog = <<>>
  /\ lastEvent = "none"
  /\ evParity = 0
  /\ pendingBy = "none"
  /\ disk0 = <<>>
  /\ attempts = <<>>
  /\ prevJob = <<>>

\* runEnvExec: parse, decrypt, merge, look the command up, exec
RunExec ==
  /\ mode = "run" /\ pc = "run"
  /\ \E found \in BOOLEAN :
       LET parsed == ParseRun(args)
           dec == DecryptToMemory(disk, ArgPath(parsed.file), identities)
       IN  IF ~parsed.ok \/ ~dec.ok \/ ~found THEN
             /\ pc' = "done"
             /\ exitCode' = 1
             /\ execEnv' = execEnv
           ELSE
             /\ pc' = "exec"
             /\ exitCode' = exitCode
             /\ execEnv' = MergeEnv(Environ, dec.pt)
  /\ lastEvent' = "run"
  /\ evParity' = 1 - evParity
  /\ UNCHANGED <<disk0, attempts, prevJob>>
  /\ fsLog' = <<>>
  /\ UNCHANGED <<cfgVars, edVars, files, idx, ok, fail, args, disk, pendingBy>>

Init == InitEdit \/ InitLoad \/ InitRotate \/ InitRotateLoad \/ InitRun

Next ==
  \/ LoadEditor
  \/ QuitKey \/ DiffKey \/ SaveKey \/ OtherKey \/ Tick \/ QuitMsg
  \/ RotateLoad \/ RotateWalk \/ RotateFile \/ RotateDone \/ RotateAgain
  \/ RunExec

Spec == Init /\ [][Next]_vars

\* ------------------------------------------------------ the editor and panics

\* a panic on the goroutine of main while the editor command runs. Before the
\* program has started (runEditor, NewModel) nothing recovers it below main,
\* whose deferred crash guard prints its message and exits with 3. Once
\* tea.Program runs, the panic of Update or View is recovered by the program
\* itself (runEditor does not pass tea.WithoutCatchPanics): Start returns an
\* error, runEditor wraps it as "tui error" and main exits with 1. Neither
\* path performs a file operation.
Fault ==
  /\ mode = "edit"
  /\ pc \in {"load", "editing"}
  /\ pc' = "done"
  /\ exitCode' = IF pc = "editing" THEN 1 ELSE 3
  /\ lastEvent' = "fault"
  /\ evParity' = 1 - evParity
  /\ fsLog' = <<>>
  /\ UNCHANGED <<cfgVars, edVars, files, idx, ok, fail, args, execEnv, disk,
                 pendingBy, disk0, attempts, prevJob>>

InitCrash == InitLoad \/ InitEdit

NextCrash ==
  \/ LoadEditor
  \/ QuitKey \/ DiffKey \/ SaveKey \/ OtherKey \/ Tick \/ QuitMsg
  \/ Fault

SpecCrash == InitCrash /\ [][NextCrash]_vars

\* ------------------------------------- the editor on an encrypted JSON file

\* text that is neither JSON nor env-style
NotJson == AllTexts[4]

\* runEditor on secrets/cfg.json.age, which holds one of the texts or NotJson
InitJsonAge ==
  /\ mode = "edit"
  /\ keyFiles = KeyFilesOk
  /\ ticks = 1
  /\ cfg \in [FilePath : {PJsonAge}, Armor : BOOLEAN, ViewOnly : BOOLEAN]
  /\ identities \in LoadedIdentities
  /\ recips \in (SUBSET Keys) \ {{}}
  /\ \E k \in {"binary", "armored"}, t \in Texts \cup {NotJson} :
       LET m == NewModel(t)
       IN  /\ disk = [p \in FsPaths |->
                        IF p = cfg.FilePath THEN [kind |-> k, pt |-> t, to |-> identities]
                        ELSE NoFile]
           /\ DecryptToMemory(disk, cfg.FilePath, identities) = [ok |-> TRUE, pt |-> t]
           /\ ta = m.ta
           /\ orig = m.orig
           /\ status = m.status
           /\ err = m.err
           /\ changed = m.changed
           /\ lastSnapshot = m.lastSnapshot
           /\ pendingConfirm = m.pendingConfirm
  /\ quit = FALSE
  /\ NoJob
  /\ pc = "editing"
  /\ exitCode = -1
  /\ fsLog = <<>>
  /\ lastEvent = "none"
  /\ evParity = 0
  /\ pendingBy = "none"
  /\ disk0 = <<>>
  /\ attempts = <<>>
  /\ prevJob = <<>>

NextJsonAge == QuitKey \/ DiffKey \/ SaveKey \/ OtherKey \/ Tick \/ QuitMsg

SpecJsonAge == InitJsonAge /\ [][NextJsonAge]_vars

\* -------------------------------------------------- the validator on its own

\* file names by the shape of their extension
NameJson == << <<"cfg", "json">> >>
NameJsonUpper == << <<"cfg", "JSON">> >>
NameYaml == << <<"a", "yaml">> >>
NameYml == << <<"a", "yml">> >>
NameToml == << <<"a", "toml">> >>
NameAge == << <<"app", "env", "age">> >>
NameNoExt == << <<"Makefile">> >>
NameDotEnv == << <<"", "env">> >>
NameTxt == << <<"x", "txt">> >>

\* the names ValidateByExt sends to a parser of a structured format
StructuredNames == {NameJson, NameJsonUpper, NameYaml, NameYml, NameToml}

\* the names ValidateByExt handles in its default case
OtherNames == {NameAge, NameNoExt, NameDotEnv, NameTxt}

\* contents for the env-style check
EnvCommentOnly == <<"#", "c">>
EnvBadKeyLine3 == <<"#", "c", "\n", "\n", "A", " ", "B", "=", "1">>
EnvNoEqLine2 == <<"A", "=", "1", "\n", "N", "O">>
EnvLeadingEq == <<"=", "a", "=", "b">>
EnvQuoteCRLF == <<"A", "=", "1", "\r", "\n", "'", "B", "'", "=", "2">>
EnvTabKeyThenNoEq ==
  <<" ", "\n", "#", "x", "\n", "A", "\t", "B", "=", "1", "\n", "N", "O">>
EnvNoEqLine1 == <<"N", "O", "\n", "A", "=", "1">>
EnvFinalNewline == <<"A", " ", "=", "1", "\n">>

EnvCheckTexts ==
  { EnvCommentOnly, EnvBadKeyLine3, EnvNoEqLine2, EnvLeadingEq, EnvQuoteCRLF,
    EnvTabKeyThenNoEq, EnvNoEqLine1, EnvFinalNewline }

\* ValidateByExt is about to be called on (cfg.FilePath, ta); the contents of
\* the structured names are the texts whose parser verdicts are recorded
InitV ==
  /\ mode = "validate"
  /\ keyFiles = KeyFilesOk
  /\ identities = {}
  /\ recips = {}
  /\ \E name \in StructuredNames \cup OtherNames :
       /\ cfg = [FilePath |-> name, Armor |-> TRUE, ViewOnly |-> FALSE]
       /\ ta \in { AllTexts[i] : i \in 1..Len(AllTexts) }
                  \cup (IF name \in OtherNames THEN EnvCheckTexts ELSE {})
  /\ orig = <<>>
  /\ status = ""
  /\ err = NoErr
  /\ changed = FALSE
  /\ lastSnapshot = <<>>
  /\ pendingConfirm = FALSE
  /\ quit = FALSE
  /\ ticks = 0
  /\ disk = [p \in FsPaths |-> NoFile]
  /\ fsLog = <<>>
  /\ NoJob
  /\ pc = "start"
  /\ exitCode = -1
  /\ lastEvent = "none"
  /\ evParity = 0
  /\ pendingBy = "none"
  /\ disk0 = <<>>
  /\ attempts = <<>>
  /\ prevJob = <<>>

\* the call of ValidateByExt
ValidateStep ==
  /\ mode = "validate" /\ pc = "start"
  /\ err' = ValidateByExt(cfg.FilePath, ta)
  /\ pc' = "validated"
  /\ UNCHANGED <<cfgVars, ta, orig, status, changed, lastSnapshot, pendingConfirm, quit,
                 ticks, files, idx, ok, fail, args, execEnv, exitCode, disk, fsLog,
                 histVars>>

NextV == ValidateStep

SpecValidate == InitV /\ [][NextV]_vars

\* ------------------------------------------- the writers of the envelope

\* The state of the writer stack while an envelope is produced: the armor
\* writer aw and the encryption stream w ("none", "open" or "closed"), whether
\* the plaintext was handed to w, and what has reached the destination.
NoStream == [aw |-> "none", w |-> "none", written |-> FALSE, out |-> [kind |-> "empty"]]

\* the effect of one call on the writer stack, and whether the call fails.
\* age.Encrypt refuses an empty recipient list; w.Close flushes the last chunk
\* into its destination, which fails when that is an armor writer already
\* closed; aw.Close ends the armor around what it was given so far, which is
\* a whole envelope only after w.Close.
StreamCall(st, call, b, rcp) ==
  CASE call = "armor.NewWriter" -> [ok |-> TRUE, st |-> [st EXCEPT !.aw = "open"]]
    [] call = "age.Encrypt" ->
         IF rcp = {} THEN [ok |-> FALSE, st |-> st]
         ELSE [ok |-> TRUE, st |-> [st EXCEPT !.w = "open", !.out = [kind |-> "corrupt"]]]
    [] call = "w.Write" ->
         IF st.w # "open" THEN [ok |-> FALSE, st |-> st]
         ELSE [ok |-> TRUE, st |-> [st EXCEPT !.written = TRUE]]
    [] call = "w.Close" ->
         IF st.w # "open" \/ st.aw = "closed" THEN [ok |-> FALSE, st |-> st]
         ELSE [ok |-> TRUE,
               st |-> [st EXCEPT !.w = "closed",
                                 !.out = AgeEncrypt(IF st.written THEN b ELSE <<>>, rcp).data]]
    [] call = "aw.Close" ->
         IF st.aw # "open" THEN [ok |-> FALSE, st |-> st]
         ELSE [ok |-> TRUE,
               st |-> [st EXCEPT !.aw = "closed",
                                 !.out = IF st.w = "closed" THEN Armor(st.out)
                                         ELSE [kind |-> "corrupt"]]]
    [] OTHER -> [ok |-> TRUE, st |-> st]

\* the calls a writer function makes in the order of its statements, run
\* until the first that fails (by itself, or because the system fails it at
\* `fault`): the log of the calls with the destination's content after each,
\* and whether all succeeded
RECURSIVE RunCalls(_, _, _, _, _, _)
RunCalls(calls, st, b, rcp, fault, dst) ==
  IF calls = <<>> THEN [ok |-> TRUE, log |-> <<>>, st |-> st]
  ELSE LET c == Head(calls)
           r == StreamCall(st, c, b, rcp)
       IN  IF c = fault \/ ~r.ok
           THEN [ok |-> FALSE, log |-> <<FsOp(c, dst, st.out)>>, st |-> st]
           ELSE LET rest == RunCalls(Tail(calls), r.st, b, rcp, fault, dst)
                IN  [ok |-> rest.ok, log |-> <<FsOp(c, dst, r.st.out)>> \o rest.log,
                     st |-> rest.st]

\* EncryptToMemory, statement by statement
MemStreamCalls(useArmor) ==
  IF useArmor THEN <<"armor.NewWriter", "age.Encrypt", "w.Write", "w.Close", "aw.Close">>
  ELSE <<"age.Encrypt", "w.Write", "w.Close">>

FileStreamCallsOuterFirst(useArmor) ==
  IF useArmor
  THEN <<"os.CreateTemp", "armor.NewWriter", "age.Encrypt", "w.Write", "aw.Close",
         "w.Close", "tmp.Sync", "tmp.Close", "os.Rename">>
  ELSE <<"os.CreateTemp", "age.Encrypt", "w.Write", "w.Close", "tmp.Sync", "tmp.Close",
         "os.Rename">>

\* AtomicEncryptWrite, statement by statement
FileStreamCalls(useArmor) ==
  IF useArmor
  THEN <<"os.CreateTemp", "armor.NewWriter", "age.Encrypt", "w.Write", "w.Close",
         "aw.Close", "tmp.Sync", "tmp.Close", "os.Rename">>
  ELSE <<"os.CreateTemp", "age.Encrypt", "w.Write", "w.Close", "tmp.Sync", "tmp.Close",
         "os.Rename">>

\* the calls the system can fail
StreamFaults ==
  {"none", "os.CreateTemp", "w.Write", "w.Close", "aw.Close", "tmp.Sync", "tmp.Close",
   "os.Rename"}

\* the step of AtomicEncryptWrite a failing call belongs to
FsFaultOf(call) ==
  CASE call = "none" -> "none"
    [] call = "os.CreateTemp" -> "create"
    [] call = "tmp.Sync" -> "sync"
    [] call = "tmp.Close" -> "close"
    [] call = "os.Rename" -> "rename"
    [] OTHER -> "write"

\* one of the two writer functions is about to be called on the text ta for
\* the recipients recips
InitStream ==
  /\ mode = "stream"
  /\ keyFiles = KeyFilesOk
  /\ identities = Keys
  /\ recips \in SUBSET Keys
  /\ cfg \in [FilePath : {PApp}, Armor : BOOLEAN, ViewOnly : {FALSE}]
  /\ ta \in { AllTexts[i] : i \in 1..Len(AllTexts) }
  /\ orig = <<>>
  /\ status = ""
  /\ err = NoErr
  /\ changed = FALSE
  /\ lastSnapshot = <<>>
  /\ pendingConfirm = FALSE
  /\ quit = FALSE
  /\ ticks = 0
  /\ disk = [p \in FsPaths |-> NoFile]
  /\ fsLog = <<>>
  /\ NoJob
  /\ pc \in {"EncryptToMemory", "AtomicEncryptWrite"}
  /\ exitCode = -1
  /\ lastEvent = "none"
  /\ evParity = 0
  /\ pendingBy = "none"
  /\ disk0 = <<>>
  /\ attempts = <<>>
  /\ prevJob = <<>>

\* EncryptToMemory(ta, recips, cfg.Armor): fsLog takes the calls made, err
\* the error returned
EncryptToMemoryCall ==
  /\ mode = "stream" /\ pc = "EncryptToMemory"
  /\ \E fault \in StreamFaults :
       LET r == RunCalls(MemStreamCalls(cfg.Armor), NoStream, ta, recips, fault, <<>>)
       IN  /\ fsLog' = r.log
           /\ err' = IF r.ok THEN NoErr ELSE Err("encrypt")
  /\ lastEvent' = pc
  /\ pc' = "returned"
  /\ UNCHANGED <<cfgVars, ta, orig, status, changed, lastSnapshot, pendingConfirm, quit,
                 ticks, files, idx, ok, fail, args, execEnv, exitCode, disk, evParity,
                 pendingBy, disk0, attempts, prevJob>>

\* AtomicEncryptWrite(cfg.FilePath, ta, recips, cfg.Armor): fsLog takes the
\* calls made, the deferred os.Remove last; the disk is the one
\* AtomicEncryptWrite leaves when it fails at the step of the failing call
AtomicEncryptWriteCall ==
  /\ mode = "stream" /\ pc = "AtomicEncryptWrite"
  /\ \E fault \in StreamFaults :
       LET tmp == TmpPath(Dir(cfg.FilePath))
           r == RunCalls(FileStreamCalls(cfg.Armor), NoStream, ta, recips, fault, tmp)
           w == AtomicEncryptWrite(disk, cfg.FilePath, ta, recips, cfg.Armor,
                                   FsFaultOf(fault))
       IN  /\ fsLog' = IF Len(r.log) = 1 /\ ~r.ok THEN r.log
                       ELSE Append(r.log, FsOp("os.Remove", tmp, r.st.out))
           /\ err' = IF r.ok THEN NoErr ELSE Err("write")
           /\ disk' = IF r.ok THEN [w.disk EXCEPT ![cfg.FilePath] = r.st.out] ELSE w.disk
  /\ lastEvent' = pc
  /\ pc' = "returned"
  /\ UNCHANGED <<cfgVars, ta, orig, status, changed, lastSnapshot, pendingConfirm, quit,
                 ticks, files, idx, ok, fail, args, execEnv, exitCode, evParity,
                 pendingBy, disk0, attempts, prevJob>>

NextStream == EncryptToMemoryCall \/ AtomicEncryptWriteCall

SpecStream == InitStream /\ [][NextStream]_vars

\* ------------------------------------------------------------ the properties

\* the last event was a save request that got as far as AtomicEncryptWrite
WriteCalled == lastEvent = "save" /\ status \in {"Saved", "Save failed"}

\* the file operations include the rename over the destination
Renamed(log) == \E i \in 1..Len(log) : log[i].op = "rename"

\* the validator accepts the buffer
BufferValid == ValidateByExt(cfg.FilePath, ta) = NoErr

\* some current identity matches a current recipient
KeysMatch == identities \cap recips # {}

\* a save request in this state passes the view-only check, validation, the
\* preflight and the confirmation gate
ReachesWrite ==
  /\ ~cfg.ViewOnly
  /\ BufferValid
  /\ Preflight(ta, recips, identities, cfg.Armor) = NoErr
  /\ (ta = orig \/ pendingConfirm)

\* C1: with a buffer that differs from originalPlaintext, a save request calls
\* AtomicWrite only if pendingConfirm was set by an earlier save request (one
\* save request never commits).
C1_SingleSaveNeverCommits ==
  [][(ta # orig /\ ~cfg.ViewOnly /\ WriteCalled') => pendingBy = "save"]_vars

\* C2: a quit request exits at once when dirty is false; when dirty is true (not
\* view-only) it exits only if a quit request set the pending confirmation.
C2_QuitGate ==
  [][(lastEvent' = "quit")
       => /\ (~changed => quit')
          /\ ((changed /\ ~cfg.ViewOnly /\ quit') => pendingBy = "quit")]_vars

\* the file the running operation may replace
CurrentTarget ==
  IF mode = "edit" THEN {cfg.FilePath}
  ELSE IF mode = "rotate" /\ pc = "loop" /\ idx <= Len(files) THEN {files[idx]}
  ELSE {}

\* data is what the encryption produced for the current recipients
IsCiphertext(data) == data.kind \in {"binary", "armored"} /\ data.to = recips

\* C3: over editor events, rotation steps and env-injection runs, the only file
\* that changes is the target, through a rename of ciphertext; every other file
\* operation is on the temp file in the target's directory, everything written
\* to it is ciphertext, and no temp file is left; plaintext is never written.
C3_PlaintextNeverOnDisk ==
  [][/\ \A p \in FsPaths :
          disk'[p] # disk[p] => (p \in CurrentTarget /\ IsCiphertext(disk'[p]))
     /\ \A p \in FsPaths : IsTmp(p) => disk'[p] = NoFile
     /\ \A i \in 1..Len(fsLog') :
          LET o == fsLog'[i]
          IN  /\ o.op = "rename" => (o.path \in CurrentTarget /\ IsCiphertext(o.data))
              /\ o.op # "rename"
                   => \E t \in CurrentTarget : o.path = TmpPath(Dir(t))
              /\ o.op = "write" => IsCiphertext(o.data)]_vars

\* a rotation step has just replaced a file by armored ciphertext
C3_Witness ==
  /\ mode = "rotate"
  /\ lastEvent = "rotate"
  /\ Renamed(fsLog)
  /\ disk[files[idx - 1]].kind = "armored"
  /\ disk[files[idx - 1]].to = recips

\* C4: a save request whose preflight fails writes nothing: the disk is
\* unchanged, no file operation happened, no temp file exists, and
\* pendingConfirm is false afterwards.
C4_PreflightFailureWritesNothing ==
  [][(/\ lastEvent' = "save"
      /\ ~cfg.ViewOnly
      /\ BufferValid
      /\ Preflight(ta, recips, identities, cfg.Armor) # NoErr)
       => /\ disk' = disk
          /\ fsLog' = <<>>
          /\ \A p \in DOMAIN disk' : IsTmp(p) => disk'[p] = NoFile
          /\ ~pendingConfirm'
          /\ ~WriteCalled']_vars

\* a save request has just been aborted by the preflight while a confirmation
\* was pending
C4_Witness ==
  /\ lastEvent = "save"
  /\ status = "Save aborted. Update recipients or identities."
  /\ err = Err("preflight decrypt")
  /\ changed
  /\ ~pendingConfirm

\* C5: for either armor setting, a save request that reaches the preflight
\* reports the lock-out error exactly when no current identity matches a
\* current recipient.
C5_PreflightVerdict ==
  (lastEvent = "save" /\ ~cfg.ViewOnly /\ status # "Validation failed; not saved.")
    => ((status = "Save aborted. Update recipients or identities.") <=> ~KeysMatch)

\* C6: on a dirty buffer that the validator accepts, with matching keys, a save
\* request that follows a first save request calls AtomicWrite (and commits
\* unless the file system fails), for either armor setting.
C6_SecondSaveCommits ==
  [][(/\ lastEvent = "save"
      /\ ~WriteCalled
      /\ ta # orig
      /\ ~cfg.ViewOnly
      /\ BufferValid
      /\ KeysMatch
      /\ lastEvent' = "save")
       => WriteCalled']_vars

\* C7 as stated, in the case where the later request directly follows the
\* content-changing event: every content-changing event leaves changed = true
\* and pendingConfirm = false; after a save request that set pendingConfirm
\* (its status is on display) and an edit, a save request that passes
\* validation and preflight does not commit and sets pendingConfirm again;
\* after a quit request that set pendingConfirm and an edit, a quit request
\* does not exit and sets pendingConfirm again.
C7_Original ==
  [][/\ (lastEvent' = "edit") => (changed' /\ ~pendingConfirm')
     /\ (/\ lastEvent = "edit"
         /\ status = "About to save. Press Ctrl+S again to confirm."
         /\ BufferValid
         /\ Preflight(ta, recips, identities, cfg.Armor) = NoErr
         /\ lastEvent' = "save")
          => (~WriteCalled' /\ pendingConfirm')
     /\ (/\ lastEvent = "edit"
         /\ status = "Unsaved changes; press Ctrl+Q again"
         /\ lastEvent' = "quit")
          => (quit' = quit /\ pendingConfirm')]_vars

\* C7 amended: every content-changing event leaves changed = true and
\* pendingConfirm = false, and no tick, inert event or diff request sets
\* pendingConfirm or clears changed, so the first save or quit request after
\* the edit finds changed = true and pendingConfirm = false, whatever lies
\* between. In every such state a quit request returns no tea.Quit and sets
\* pendingConfirm, and a save request calls AtomicWrite only if the buffer
\* equals originalPlaintext and sets pendingConfirm exactly when the buffer
\* differs and validation and preflight pass. A request that finds
\* pendingConfirm set, by a request of either kind, is not a first request:
\* a quit request returns tea.Quit, and a save request that passes
\* validation and preflight calls AtomicWrite.
C7_GateResetByEdits ==
  [][/\ (lastEvent' = "edit") => (changed' /\ ~pendingConfirm')
     /\ (lastEvent' \in {"tick", "key", "diff"} /\ evParity' # evParity)
          => ((pendingConfirm' => pendingConfirm) /\ changed' = changed)
     /\ (lastEvent' = "quit" /\ evParity' # evParity /\ changed /\ ~pendingConfirm)
          => (quit' = quit /\ pendingConfirm' /\ pendingBy' = "quit")
     /\ (lastEvent' = "save" /\ evParity' # evParity /\ changed /\ ~pendingConfirm)
          => /\ WriteCalled' => ta = orig
             /\ pendingConfirm'
                  <=> (/\ ta # orig
                       /\ BufferValid
                       /\ Preflight(ta, recips, identities, cfg.Armor) = NoErr)
             /\ pendingConfirm' => pendingBy' = "save"
     /\ (lastEvent' = "quit" /\ evParity' # evParity /\ pendingConfirm) => quit'
     /\ (/\ lastEvent' = "save" /\ evParity' # evParity /\ pendingConfirm
         /\ BufferValid
         /\ Preflight(ta, recips, identities, cfg.Armor) = NoErr)
          => WriteCalled']_vars

\* an edit has just reset the gate that a save request had set
C7_Witness ==
  /\ lastEvent = "edit"
  /\ status = "About to save. Press Ctrl+S again to confirm."
  /\ changed
  /\ ~pendingConfirm

\* C8: dirty is true exactly when the buffer differs from originalPlaintext.
C8_DirtyIffDiffers == changed <=> (ta # orig)

\* C9: a save request never changes the buffer; when AtomicWrite fails,
\* originalPlaintext, dirty and the disk are unchanged, the error is recorded
\* and pendingConfirm is false, so the next save request on a changed buffer
\* is a first request again.
C9_FailedSaveKeepsEdits ==
  [][(lastEvent' = "save")
       => /\ ta' = ta
          /\ (ReachesWrite /\ ~Renamed(fsLog'))
               => /\ orig' = orig
                  /\ changed' = changed
                  /\ disk' = disk
                  /\ err' = Err("write")
                  /\ ~pendingConfirm'
          /\ (lastEvent = "save" /\ status = "Save failed" /\ ta # orig) => ~WriteCalled']_vars

\* AtomicWrite has just failed on a changed buffer
C9_Witness ==
  /\ lastEvent = "save"
  /\ status = "Save failed"
  /\ err = Err("write")
  /\ ta # orig
  /\ changed
  /\ ~pendingConfirm

\* C10: after a save request whose AtomicWrite succeeded, originalPlaintext
\* equals the buffer, dirty and pendingConfirm are false, the recorded error
\* is cleared, and the target file decrypts with the session's identities to
\* exactly the buffer.
C10_CommitPostcondition ==
  (lastEvent = "save" /\ Renamed(fsLog))
    => /\ orig = ta
       /\ ~changed
       /\ ~pendingConfirm
       /\ err = NoErr
       /\ DecryptToMemory(disk, cfg.FilePath, identities) = [ok |-> TRUE, pt |-> ta]

\* a save request has just committed a buffer that differs from the text the
\* session opened with
C10_Witness ==
  /\ lastEvent = "save"
  /\ Renamed(fsLog)
  /\ status = "Saved"
  /\ disk[cfg.FilePath].pt = ta
  /\ ta # lastSnapshot

\* C11: a save request whose buffer the validator rejects writes nothing,
\* leaves the buffer, originalPlaintext and dirty unchanged, records the
\* validator's error and leaves pendingConfirm false, whatever it was before.
C11_ValidationGate ==
  [][(lastEvent' = "save" /\ ~cfg.ViewOnly /\ ~BufferValid)
       => /\ disk' = disk
          /\ fsLog' = <<>>
          /\ ta' = ta
          /\ orig' = orig
          /\ changed' = changed
          /\ err' = ValidateByExt(cfg.FilePath, ta)
          /\ status' = "Validation failed; not saved."
          /\ ~pendingConfirm'
          /\ ~WriteCalled']_vars

\* a save request has just been stopped by the validator on an edited buffer
C11_Witness ==
  /\ lastEvent = "save"
  /\ status = "Validation failed; not saved."
  /\ err = ValidateByExt(cfg.FilePath, ta)
  /\ err # NoErr
  /\ changed
  /\ ta # orig
  /\ ~pendingConfirm

\* C12: in a view-only session no event changes the disk, the buffer or the
\* recorded error, pendingConfirm is false in every state, a save request
\* changes nothing but the status, and every quit request returns tea.Quit.
C12_ViewOnly ==
  /\ []((mode = "edit" /\ cfg.ViewOnly)
          => (~pendingConfirm /\ ~changed /\ ta = orig /\ err = NoErr /\ fsLog = <<>>))
  /\ [][(mode = "edit" /\ pc = "editing" /\ cfg.ViewOnly)
          => /\ disk' = disk
             /\ fsLog' = <<>>
             /\ ta' = ta
             /\ (lastEvent' = "quit" => quit')
             /\ (lastEvent' = "save"
                   => /\ status' = "View-only mode: saving disabled."
                      /\ <<orig, err, changed, lastSnapshot, pendingConfirm, quit>>'
                           = <<orig, err, changed, lastSnapshot, pendingConfirm, quit>>)]_vars

\* a view-only session has just refused a save request on a buffer that the
\* validator would have rejected
C12_Witness ==
  /\ mode = "edit"
  /\ cfg.ViewOnly
  /\ lastEvent = "save"
  /\ status = "View-only mode: saving disabled."
  /\ ~BufferValid
  /\ err = NoErr

\* C13: whenever AtomicWrite has run, whatever step it failed at, no temp file
\* is left in any directory, and the operations end with the removal of the
\* temp file that the call created.
C13_NoTempLeft ==
  (fsLog # <<>>)
    => /\ \A p \in FsPaths : IsTmp(p) => disk[p] = NoFile
       /\ fsLog[1].op = "create"
       /\ fsLog[Len(fsLog)].op = "remove"
       /\ fsLog[Len(fsLog)].path = fsLog[1].path

\* AtomicWrite has just failed at the sync, after the ciphertext was written
\* to the temp file
C13_Witness ==
  /\ Len(fsLog) = 3
  /\ fsLog[2].op = "write"
  /\ fsLog[3].op = "remove"
  /\ disk[fsLog[1].path] = NoFile

\* the order of the steps of AtomicWrite
StepOrder == <<"create", "write", "sync", "close", "rename">>

\* C14: AtomicWrite performs create, encrypt, sync, close, rename in this order,
\* stopping at the first failure; every step before the rename is on a file in
\* the destination's directory other than the destination; without the rename
\* the destination keeps its previous content, and with it the destination
\* holds the whole ciphertext that was written to the temp file.
C14_CommitOrdering ==
  [][(fsLog' # <<>>)
       => LET n == Len(fsLog') - 1
          IN  /\ n \in 1..5
              /\ \A i \in 1..n : fsLog'[i].op = StepOrder[i]
              /\ \A t \in CurrentTarget :
                    /\ \A i \in 1..n :
                          fsLog'[i].op # "rename"
                            => (fsLog'[i].path # t /\ Dir(fsLog'[i].path) = Dir(t))
                    /\ ~Renamed(fsLog') => disk'[t] = disk[t]
                    /\ Renamed(fsLog')
                         => /\ n = 5
                            /\ fsLog'[5].path = t
                            /\ disk'[t] = fsLog'[2].data
                            /\ disk'[t].kind \in {"binary", "armored"}]_vars

\* a save request has just replaced the target by the ciphertext after all
\* five steps
C14_Witness ==
  /\ mode = "edit"
  /\ Len(fsLog) = 6
  /\ fsLog[5].op = "rename"
  /\ fsLog[5].path = cfg.FilePath
  /\ disk[cfg.FilePath] = fsLog[2].data
  /\ disk[cfg.FilePath] # fsLog[1].data

\* decrypting in-memory ciphertext the way the round-trip tests do: through an
\* armor reader when the data is armored
DecryptBytes(data, ids) ==
  AgeDecrypt(IF ArmorRead(data).ok THEN ArmorRead(data).data ELSE data, ids)

\* the plaintext the running operation hands to AtomicEncryptWrite
WrittenPlaintext ==
  IF mode = "edit" THEN ta
  ELSE DecryptToMemory(disk, files[idx], identities).pt

\* C15: for either armor setting, what EncryptToMemory makes of the buffer for
\* the recipients decrypts, with any identity set holding a matching key, to
\* exactly the buffer; and a file that AtomicEncryptWrite has just written
\* decrypts through DecryptToMemory, with any such identity set, to exactly the
\* plaintext that was written, whether the file is armored or binary.
C15_RoundTrip ==
  /\ [](mode = "edit"
          => \A ids \in SUBSET Keys :
               (ids \cap recips # {})
                 => DecryptBytes(EncryptToMemory(ta, recips, cfg.Armor).data, ids)
                      = [ok |-> TRUE, pt |-> ta])
  /\ [][Renamed(fsLog')
          => \A t \in CurrentTarget : \A ids \in SUBSET Keys :
               (ids \cap recips # {})
                 => DecryptToMemory(disk', t, ids) = [ok |-> TRUE, pt |-> WrittenPlaintext]]_vars

\* a rotation step has just written a file that the identities of the job
\* cannot open and the new recipients' keys can
C15_Witness ==
  /\ mode = "rotate"
  /\ lastEvent = "rotate"
  /\ Renamed(fsLog)
  /\ ~DecryptToMemory(disk, files[idx - 1], identities).ok
  /\ DecryptToMemory(disk, files[idx - 1], recips).ok
  /\ DecryptToMemory(disk, files[idx - 1], recips).pt = disk0[files[idx - 1]].pt

\* the attempts of the rotation job that succeeded, and those that failed
Succeeded == { i \in 1..Len(attempts) : attempts[i].ok }

Failed == { i \in 1..Len(attempts) : ~attempts[i].ok }

\* C16: a rotation job attempts the matched files once each, in the order of
\* the walk, whatever the outcome of the earlier ones; its counters are the
\* numbers of succeeded and failed attempts, and they add up to the number of
\* matched files at the end; every file whose attempt failed is as it was
\* when the job started.
C16_RotationFaultIsolation ==
  (mode = "rotate" /\ pc \in {"loop", "done"} /\ files # <<>>)
    => /\ files = Walk(disk0)
       /\ Len(attempts) = idx - 1
       /\ Len(attempts) <= Len(files)
       /\ \A i \in 1..Len(attempts) : attempts[i].file = files[i]
       /\ \A i, j \in 1..Len(files) : files[i] = files[j] => i = j
       /\ ok = Cardinality(Succeeded)
       /\ fail = Cardinality(Failed)
       /\ ok + fail = Len(attempts)
       /\ \A i \in Failed : disk[files[i]] = disk0[files[i]]
       /\ pc = "done" => (Len(attempts) = Len(files) /\ ok + fail = Len(files))

\* a job over three files has ended; the first and the third failed, the
\* second succeeded
C16_Witness ==
  /\ mode = "rotate"
  /\ pc = "done"
  /\ Len(files) = 3
  /\ Len(attempts) = 3
  /\ ~attempts[1].ok /\ attempts[2].ok /\ ~attempts[3].ok
  /\ ok = 1 /\ fail = 2

\* C17: every file that the rotation job counted as succeeded holds, at the
\* same path, the plaintext it held when the job started, in an ASCII-armored
\* envelope for exactly the new recipients: an identity set opens it exactly
\* when it holds a key of a new recipient.
C17_RotationResult ==
  mode = "rotate"
    => \A i \in Succeeded :
         LET f == attempts[i].file
         IN  /\ IsFile(disk0[f])
             /\ disk[f].kind = "armored"
             /\ disk[f].to = recips
             /\ disk[f].pt = DecryptToMemory(disk0, f, identities).pt
             /\ \A ids \in SUBSET Keys :
                   /\ DecryptToMemory(disk, f, ids).ok <=> (ids \cap recips # {})
                   /\ DecryptToMemory(disk, f, ids).ok
                        => DecryptToMemory(disk, f, ids).pt = disk0[f].pt

\* the job has re-encrypted a file that was a binary envelope for other
\* recipients
C17_Witness ==
  /\ mode = "rotate"
  /\ \E i \in Succeeded :
       /\ disk0[attempts[i].file].kind = "binary"
       /\ disk0[attempts[i].file].to # recips
       /\ disk[attempts[i].file].kind = "armored"

\* C18: the rotation job reports nothing while files remain; after the full
\* pass it reports failure exactly when failed > 0; the report changes no
\* file, so the files already re-encrypted stay under the new recipients.
C18_RotationReporting ==
  /\ []((mode = "rotate" /\ files # <<>>)
          => /\ pc = "loop" => exitCode = -1
             /\ pc = "done"
                  => /\ Len(attempts) = Len(files)
                     /\ exitCode \in {0, 1}
                     /\ exitCode = 1 <=> fail > 0
                     /\ \A i \in Succeeded :
                           /\ disk[files[i]].kind = "armored"
                           /\ disk[files[i]].to = recips)
  /\ [][(lastEvent' = "report") => disk' = disk]_vars

\* the job has reported failure after a pass in which a file was re-encrypted
\* before another one failed
C18_Witness ==
  /\ mode = "rotate"
  /\ lastEvent = "report"
  /\ exitCode = 1
  /\ Len(attempts) >= 2
  /\ attempts[1].ok
  /\ ~attempts[2].ok
  /\ disk[files[1]].to = recips

\* the lines of the decrypted text that the command was started with
EnvLines == ScanLines(DecryptToMemory(disk, cfg.FilePath, identities).pt)

\* the key of a line: the text before the first "=", surrounding space trimmed
LineKey(raw) == TrimSpace(BeforeFirst(TrimSpace(raw), "="))

\* a line that is non-blank, does not start with "#", contains "=" not in
\* first position and has a non-empty key
LineAccepted(raw) ==
  LET t == TrimSpace(raw)
  IN  /\ t # <<>>
      /\ Head(t) # "#"
      /\ Contains(t, "=")
      /\ Head(t) # "="
      /\ LineKey(raw) # <<>>

AcceptedLines == { i \in 1..Len(EnvLines) : LineAccepted(EnvLines[i]) }

FileKeys == { LineKey(EnvLines[i]) : i \in AcceptedLines }

\* the last accepted line that names key k
LastLine(k) ==
  CHOOSE i \in AcceptedLines :
    /\ LineKey(EnvLines[i]) = k
    /\ \A j \in AcceptedLines : LineKey(EnvLines[j]) = k => j <= i

\* the inherited environment {A: 0, C: x}
Inherited == (<<"A">> :> <<"0">>) @@ (<<"C">> :> <<"x">>)

\* {A: 1, B: two words, C: x}
ExampleEnv ==
  (<<"A">> :> <<"1">>) @@ (<<"C">> :> <<"x">>)
    @@ (<<"B">> :> <<"t", "w", "o", " ", "w", "o", "r", "d", "s">>)

\* C19: the environment of the exec'd command has exactly the inherited keys
\* and the keys of the accepted lines; an inherited key that the file does not
\* name keeps its value; a key of the file has the value of its (last) line,
\* here compared up to surrounding white space; the example text over
\* {A: 0, C: x} gives exactly {A: 1, B: two words, C: x}.
C19_EnvMerge ==
  (mode = "run" /\ pc = "exec")
    => /\ DOMAIN execEnv = (DOMAIN Inherited) \cup FileKeys
       /\ \A k \in (DOMAIN Inherited) \ FileKeys : execEnv[k] = Inherited[k]
       /\ \A k \in FileKeys :
            TrimSpace(execEnv[k]) = TrimSpace(AfterFirst(EnvLines[LastLine(k)], "="))
       /\ (disk[cfg.FilePath].pt = EnvExample) => execEnv = ExampleEnv

\* the command has been started on the example text
C19_Witness ==
  /\ mode = "run"
  /\ pc = "exec"
  /\ disk[cfg.FilePath].pt = EnvExample
  /\ execEnv = ExampleEnv

\* C20: for every accepted line, the key is the trimmed text before the first
\* "=", and the value is exactly the text after the first "=" as it stands on
\* the line, trailing spaces included.
C20_EnvLineSplit ==
  (mode = "run" /\ pc = "exec")
    => \A k \in FileKeys :
         /\ k \in DOMAIN execEnv
         /\ execEnv[k] = AfterFirst(EnvLines[LastLine(k)], "=")

\* C21: a malformed run invocation ends the process with status 2 and changes
\* nothing; a runtime failure (decrypt failure, command not found, rotation
\* with failures or without files) ends it with status 1.
C21_ExitStatus ==
  /\ (mode = "run" /\ pc = "done")
       => /\ disk = [p \in FsPaths |-> IF p = PApp THEN disk[PApp] ELSE NoFile]
          /\ execEnv = <<>>
          /\ exitCode = IF ParseRun(args).ok THEN 1 ELSE 2
  /\ (mode = "rotate" /\ pc = "done" /\ (fail > 0 \/ files = <<>>)) => exitCode = 1

\* the positions of the "--" markers in the arguments of run
Markers == { i \in 1..Len(args) : args[i] = "--" }

FirstMarker == CHOOSE i \in Markers : \A j \in Markers : i <= j

SecondMarker ==
  CHOOSE i \in Markers \ {FirstMarker} : \A j \in Markers \ {FirstMarker} : i <= j

\* at least two markers, exactly one token between the first two, and at
\* least one token after the second
RunAccepts ==
  /\ Cardinality(Markers) >= 2
  /\ SecondMarker = FirstMarker + 2
  /\ SecondMarker < Len(args)

\* C22: the run parser accepts the arguments exactly when they hold two
\* markers with one token between them and a token after the second; the file
\* is that token and the command is everything after the second marker; a
\* rejected vector ends the process before anything is decrypted or exec'd.
C22_RunSyntax ==
  mode = "run"
    => /\ ParseRun(args).ok <=> RunAccepts
       /\ RunAccepts
            => /\ ParseRun(args).file = args[FirstMarker + 1]
               /\ ParseRun(args).command
                    = [i \in 1..(Len(args) - SecondMarker) |-> args[SecondMarker + i]]
       /\ (lastEvent = "run" /\ ~RunAccepts) => (pc = "done" /\ execEnv = <<>>)
       /\ pc = "exec" => RunAccepts

\* the command has been started from arguments with a third marker, which
\* belongs to the command
C22_Witness ==
  /\ mode = "run"
  /\ pc = "exec"
  /\ args = <<"--", "f", "--", "cmd", "--", "x">>
  /\ ParseRun(args).command = <<"cmd", "--", "x">>

\* C23: a save request on a buffer equal to originalPlaintext, in a session
\* that is not view-only and whose buffer passes validation and preflight,
\* goes to AtomicWrite at once: pendingConfirm is not set, and when the write
\* succeeds the target holds a new envelope of the buffer to the session's
\* recipients.
C23_UnchangedSaveWrites ==
  [][(/\ lastEvent' = "save"
      /\ evParity' # evParity
      /\ ta = orig
      /\ ~cfg.ViewOnly
      /\ BufferValid
      /\ Preflight(ta, recips, identities, cfg.Armor) = NoErr)
       => /\ status' \in {"Saved", "Save failed"}
          /\ fsLog' # <<>> => fsLog'[1].op = "create"
          /\ ~pendingConfirm'
          /\ Renamed(fsLog')
               => /\ status' = "Saved"
                  /\ disk'[cfg.FilePath].pt = ta
                  /\ disk'[cfg.FilePath].to = recips]_vars

\* the first save request on a never edited buffer went to AtomicWrite, whose
\* file operations failed
C23_Witness ==
  /\ lastEvent = "save"
  /\ status = "Save failed"
  /\ fsLog # <<>>
  /\ ta = orig
  /\ ~changed
  /\ ~pendingConfirm

\* C24: a snapshot tick copies the buffer into lastSnapshot and re-arms one
\* next tick; it leaves the buffer, originalPlaintext, dirty, pendingConfirm
\* (and who armed it), the recorded error and the disk as they were.
C24_TickInert ==
  [][lastEvent' = "tick"
       => /\ lastSnapshot' = ta
          /\ ticks = 1
          /\ ticks' = 1
          /\ ta' = ta
          /\ orig' = orig
          /\ changed' = changed
          /\ pendingConfirm' = pendingConfirm
          /\ pendingBy' = pendingBy
          /\ err' = err
          /\ disk' = disk
          /\ quit' = quit
          /\ fsLog' = <<>>]_vars

\* a tick arrived while a save request was waiting for its confirmation
C24_Witness ==
  /\ lastEvent = "tick"
  /\ pendingConfirm
  /\ pendingBy = "save"
  /\ ta # orig
  /\ lastSnapshot = ta

\* C25: a diff request clears pendingConfirm, reports "no changes" exactly
\* when the buffer equals originalPlaintext, and leaves the buffer,
\* originalPlaintext, dirty and the disk unchanged; so a save request that
\* follows a diff request on a changed buffer does not commit.
C25_DiffRequest ==
  /\ [][(lastEvent' = "diff" /\ evParity' # evParity)
          => /\ ~pendingConfirm'
             /\ status' = "No changes to show" <=> ta = orig
             /\ status' = "Diff preview" <=> ta # orig
             /\ ta' = ta
             /\ orig' = orig
             /\ changed' = changed
             /\ disk' = disk
             /\ fsLog' = <<>>]_vars
  /\ [][(lastEvent = "diff" /\ ta # orig /\ lastEvent' = "save")
          => (disk' = disk /\ fsLog' = <<>> /\ orig' = orig)]_vars

\* a diff request on a changed buffer has just shown the diff
C25_Witness ==
  /\ lastEvent = "diff"
  /\ status = "Diff preview"
  /\ ta # orig
  /\ changed
  /\ ~pendingConfirm

\* C26: originalPlaintext is the decrypted plaintext when the session starts,
\* and afterwards changes only in a save request whose AtomicWrite succeeded,
\* which sets it to the buffer.
C26_OrigLifecycle ==
  /\ [](( mode = "edit" /\ pc = "editing" /\ lastEvent = "none")
          => orig = DecryptToMemory(disk, cfg.FilePath, identities).pt)
  /\ [][orig' # orig
          => \/ /\ pc = "load"
                /\ pc' = "editing"
                /\ orig' = DecryptToMemory(disk, cfg.FilePath, identities).pt
             \/ /\ lastEvent' = "save"
                /\ Renamed(fsLog')
                /\ status' = "Saved"
                /\ orig' = ta]_vars

\* a committed save has replaced originalPlaintext by an edited buffer
C26_Witness ==
  /\ lastEvent = "save"
  /\ Renamed(fsLog)
  /\ orig = ta
  /\ orig # lastSnapshot
  /\ ~changed

\* the physical lines of the validated content, trimmed
Trimmed == [i \in 1..Len(ScanLines(ta)) |-> TrimSpace(ScanLines(ta)[i])]

\* a line that is neither blank nor a comment
Live(t) == t # <<>> /\ Head(t) # "#"

\* the characters of a text
Chars(t) == { t[k] : k \in 1..Len(t) }

\* the content looks like env text: a live line holds "=" and does not start
\* with it
LooksEnv == \E i \in 1..Len(Trimmed) :
              Live(Trimmed[i]) /\ "=" \in Chars(Trimmed[i]) /\ Head(Trimmed[i]) # "="

\* C27: the extension decides the checker whatever its letter case: .json goes
\* to the JSON parser, .yaml and .yml to the YAML parser, .toml to the TOML
\* parser; under any other extension, or none, the content is env-checked when
\* it looks like env text and is accepted otherwise, empty and comment-only
\* content included.
C27_Dispatch ==
  (mode = "validate" /\ pc = "validated")
    => /\ cfg.FilePath \in {NameJson, NameJsonUpper} => err = validateJSON(ta)
       /\ cfg.FilePath \in {NameYaml, NameYml} => err = validateYAML(ta)
       /\ cfg.FilePath = NameToml => err = validateTOML(ta)
       /\ cfg.FilePath \in {NameAge, NameNoExt, NameDotEnv, NameTxt}
            => /\ LooksEnv => err = validateDotEnv(ta)
               /\ ~LooksEnv => err = NoErr
               /\ ta \in {<<>>, EnvCommentOnly, EnvLeadingEq} => err = NoErr

\* a file with the upper-case extension .JSON was refused by the JSON parser
C27_Witness ==
  /\ mode = "validate"
  /\ pc = "validated"
  /\ cfg.FilePath = NameJsonUpper
  /\ ta = <<"A", "=", "1">>
  /\ err = Err("JSON parse error")

\* a live line without "=", or starting with "="
BadNoEq(t) == Live(t) /\ ("=" \notin Chars(t) \/ Head(t) = "=")

\* a live KEY=VALUE line whose key is empty or holds a space, a tab or a quote
BadKey(t) ==
  /\ Live(t)
  /\ ~BadNoEq(t)
  /\ \/ LineKey(t) = <<>>
     \/ Chars(LineKey(t)) \cap {" ", "\t", "\"", "'"} # {}

\* the numbers of the offending physical lines
Offending == { i \in 1..Len(Trimmed) : BadNoEq(Trimmed[i]) \/ BadKey(Trimmed[i]) }

\* C28: content that looks like env text fails at its first live line that has
\* no "=", starts with "=", or has an empty key or a key with a space, tab or
\* quote; the error names the rule and the 1-based number of that line among
\* all physical lines; content without such a line passes.
C28_EnvValidation ==
  (mode = "validate" /\ pc = "validated" /\ cfg.FilePath \in OtherNames /\ LooksEnv)
    => IF Offending = {} THEN err = NoErr
       ELSE \E first \in Offending :
              /\ \A j \in Offending : first <= j
              /\ err.line = first
              /\ err.kind = IF BadNoEq(Trimmed[first]) THEN ".env parse error"
                             ELSE ".env invalid key"

\* the key with a tab on line 3 is reported, not the line without "=" after it
C28_Witness ==
  /\ mode = "validate"
  /\ pc = "validated"
  /\ ta = EnvTabKeyThenNoEq
  /\ err = ErrAt(".env invalid key", 3)

\* runEditor returns an error before the program starts
LoadFails ==
  \/ keyFiles.ids # "ok"
  \/ keyFiles.recips # "ok"
  \/ recips = {}
  \/ disk[cfg.FilePath].kind \notin {"binary", "armored"}
  \/ disk[cfg.FilePath].to \cap identities = {}

\* C29: when the identities file is missing or unparsable, the recipients
\* file is missing, unparsable or without recipients, or no loaded identity
\* decrypts the target, the process ends with status 1 without an editing
\* session and without any file operation; otherwise the session starts on
\* the decrypted text. So every editing session has a non-empty recipient set.
C29_LoadFailures ==
  /\ [][(mode = "edit" /\ pc = "load" /\ pc' # "load")
          => IF LoadFails
             THEN /\ pc' = "done"
                  /\ exitCode' = 1
                  /\ disk' = disk
                  /\ fsLog' = <<>>
                  /\ ta' = <<>> /\ status' = "" /\ ticks' = 0
             ELSE /\ pc' = "editing"
                  /\ exitCode' = -1
                  /\ ta' = disk[cfg.FilePath].pt]_vars
  /\ [][(mode = "edit" /\ pc = "done") => (pc' = "done" /\ disk' = disk)]_vars
  /\ []((mode = "edit" /\ pc = "editing")
          => (recips # {} /\ identities # {} /\ keyFiles = KeyFilesOk))

\* both key files parse and the target decrypts, but the recipients file
\* lists no recipient: the process has ended with status 1
C29_Witness ==
  /\ mode = "edit"
  /\ pc = "done"
  /\ exitCode = 1
  /\ keyFiles = KeyFilesOk
  /\ recips = {}
  /\ disk[cfg.FilePath].kind = "armored"
  /\ disk[cfg.FilePath].to = identities
  /\ status = ""

\* C30: a fault raised while the editor runs ends the process with status 3
\* through the crash guard, and no file operation happens on that path.
C30_CrashGuard ==
  (mode = "edit" /\ lastEvent = "fault")
    => /\ pc = "done"
       /\ exitCode = 3
       /\ fsLog = <<>>
       /\ \A p \in FsPaths : IsTmp(p) => disk[p] = NoFile

\* the file operations that carry data all carry an envelope of text t
LogCarries(log, t) ==
  \A i \in 1..Len(log) :
    log[i].op \in {"write", "sync", "close", "rename"} => log[i].data.pt = t

\* C31: a save request runs the view-only check, validation, preflight, the
\* confirmation gate and AtomicWrite in this order and stops at the first
\* that fails; so a write happens only in an event in which the buffer passed
\* validation and preflight, and what is written is an envelope of that buffer.
C31_SaveOrdering ==
  [][(lastEvent' = "save" /\ evParity' # evParity)
       => /\ ta' = ta
          /\ IF cfg.ViewOnly
             THEN /\ status' = "View-only mode: saving disabled."
                  /\ err' = err
                  /\ fsLog' = <<>> /\ disk' = disk
             ELSE IF ~BufferValid
             THEN /\ status' = "Validation failed; not saved."
                  /\ err'.kind \in {"JSON parse error", "YAML parse error",
                                    "TOML parse error", ".env parse error",
                                    ".env invalid key"}
                  /\ ~pendingConfirm'
                  /\ fsLog' = <<>> /\ disk' = disk
             ELSE IF Preflight(ta, recips, identities, cfg.Armor) # NoErr
             THEN /\ err'.kind \in {"preflight encrypt", "preflight decrypt"}
                  /\ ~pendingConfirm'
                  /\ fsLog' = <<>> /\ disk' = disk
             ELSE IF ta # orig /\ ~pendingConfirm
             THEN /\ pendingConfirm'
                  /\ err' = err
                  /\ fsLog' = <<>> /\ disk' = disk
             ELSE /\ status' \in {"Saved", "Save failed"}
                  /\ LogCarries(fsLog', ta)
                  /\ disk'[cfg.FilePath] # disk[cfg.FilePath]
                       => (Renamed(fsLog') /\ disk'[cfg.FilePath].pt = ta)]_vars

\* the confirming second request has validated, preflighted and written the
\* edited buffer
C31_Witness ==
  /\ lastEvent = "save"
  /\ \E i \in 1..Len(fsLog) : fsLog[i].op = "write" /\ fsLog[i].data.pt = ta
  /\ BufferValid
  /\ Preflight(ta, recips, identities, cfg.Armor) = NoErr
  /\ ta # lastSnapshot
  /\ status = "Saved"

\* the position of the call named op in the log, 0 when it was not made
CallPos(log, op) ==
  IF \E i \in 1..Len(log) : log[i].op = op
  THEN CHOOSE i \in 1..Len(log) : log[i].op = op
  ELSE 0

\* C32: with armor on, EncryptToMemory and AtomicEncryptWrite close the
\* encryption stream before the armor writer, and AtomicEncryptWrite closes
\* both before sync, close and rename; a call that returns success has closed
\* every stream it opened, and its result is a whole envelope of the text.
C32_ClosingOrder ==
  (mode = "stream" /\ pc = "returned")
    => LET inner == CallPos(fsLog, "w.Close")
           outer == CallPos(fsLog, "aw.Close")
           sync == CallPos(fsLog, "tmp.Sync")
           close == CallPos(fsLog, "tmp.Close")
           rename == CallPos(fsLog, "os.Rename")
           result == IF lastEvent = "EncryptToMemory" THEN fsLog[Len(fsLog)].data
                     ELSE disk[cfg.FilePath]
       IN  /\ outer > 0 => (inner > 0 /\ inner < outer)
           /\ sync > 0
                => /\ inner > 0 /\ inner < sync
                   /\ cfg.Armor => (outer > 0 /\ outer < sync)
           /\ close > 0 => (sync > 0 /\ sync < close)
           /\ rename > 0 => (close > 0 /\ close < rename)
           /\ err = NoErr
                => /\ inner > 0
                   /\ cfg.Armor => outer > 0
                   /\ lastEvent = "AtomicEncryptWrite" => rename > 0
                   /\ result = [kind |-> IF cfg.Armor THEN "armored" ELSE "binary",
                                pt |-> ta, to |-> recips]

\* AtomicEncryptWrite has returned success for an armored envelope
C32_Witness ==
  /\ mode = "stream"
  /\ pc = "returned"
  /\ lastEvent = "AtomicEncryptWrite"
  /\ cfg.Armor
  /\ err = NoErr
  /\ disk[cfg.FilePath].kind = "armored"
  /\ CallPos(fsLog, "w.Close") = 5
  /\ CallPos(fsLog, "aw.Close") = 6

\* C33: in every state of an editing session the target file decrypts with
\* the session's identities to originalPlaintext, so the disk never holds a
\* buffer the session regards as unsaved; a failed AtomicWrite leaves the
\* file and originalPlaintext as they were.
C33_DiskSessionAgreement ==
  /\ []((mode = "edit" /\ pc = "editing")
          => /\ DecryptToMemory(disk, cfg.FilePath, identities) = [ok |-> TRUE, pt |-> orig]
             /\ ta # orig => disk[cfg.FilePath].pt # ta)
  /\ [][(lastEvent' = "save" /\ status' = "Save failed" /\ evParity' # evParity)
          => (disk'[cfg.FilePath] = disk[cfg.FilePath] /\ orig' = orig)]_vars

\* AtomicWrite has just failed after writing the temp file, on an edited buffer
C33_Witness ==
  /\ lastEvent = "save"
  /\ status = "Save failed"
  /\ \E i \in 1..Len(fsLog) : fsLog[i].op = "close"
  /\ ta # orig
  /\ disk[cfg.FilePath].pt = orig

\* C34: a quit request either exits (Update returns tea.Quit) or sets
\* pendingConfirm; a quit request that directly follows one that did not exit
\* exits; once a quit request has exited no event is handled: the only step
\* left is the end of the program.
C34_QuitWithinTwo ==
  /\ [][(lastEvent' = "quit" /\ evParity' # evParity)
          => /\ quit' \/ (pendingConfirm' /\ ~pendingConfirm)
             /\ (lastEvent = "quit" => quit')
             /\ pendingConfirm => quit']_vars
  /\ [][quit => (lastEvent' = "exit" /\ evParity' = evParity)]_vars
  /\ [][(mode = "edit" /\ pc = "done") => FALSE]_vars

\* C35: an event that is not a save, quit, diff or tick and leaves the buffer
\* text as it was changes neither dirty, pendingConfirm (nor who armed it),
\* originalPlaintext, the recorded error nor the disk.
C35_InertKeys ==
  [][(lastEvent' = "key" /\ evParity' # evParity)
       => /\ ta' = ta
          /\ changed' = changed
          /\ pendingConfirm' = pendingConfirm
          /\ pendingBy' = pendingBy
          /\ orig' = orig
          /\ err' = err
          /\ disk' = disk
          /\ fsLog' = <<>>
          /\ quit' = quit]_vars

\* a key that edits nothing arrived while a save request on an edited buffer
\* was waiting for its confirmation
C35_Witness ==
  /\ lastEvent = "key"
  /\ pendingConfirm
  /\ pendingBy = "save"
  /\ changed
  /\ ta # orig

\* the statuses of a save request that stopped at a failing step
FailedSaveStatuses ==
  {"Validation failed; not saved.", "Save aborted.",
   "Save aborted. Update recipients or identities.", "Save failed"}

\* C36: the recorded error changes only in a save request: a failed
\* validation, preflight or AtomicWrite sets it and a committed save clears
\* it; an edit, a diff request, a quit request, a tick, the refusal of a save
\* in a view-only session and a save that stops at the confirmation gate
\* leave it as it was, so an error of an earlier attempt can be on display
\* while pendingConfirm is true.
C36_ErrorLifetime ==
  [][/\ err' # err
          => /\ lastEvent' = "save"
             /\ ~cfg.ViewOnly
             /\ IF err' = NoErr THEN status' = "Saved" /\ Renamed(fsLog')
                ELSE status' \in FailedSaveStatuses
     /\ (lastEvent' = "save" /\ evParity' # evParity)
          => /\ status' \in FailedSaveStatuses => err' # NoErr
             /\ status' = "Saved" => err' = NoErr
             /\ status' = "About to save. Press Ctrl+S again to confirm." => err' = err
             /\ status' = "View-only mode: saving disabled." => err' = err
     /\ (lastEvent' \in {"edit", "key", "diff", "quit", "tick"} /\ evParity' # evParity)
          => err' = err]_vars

\* a save request on a valid buffer waits for its confirmation while the
\* error of an earlier, rejected buffer is still recorded
C36_Witness ==
  /\ lastEvent = "save"
  /\ status = "About to save. Press Ctrl+S again to confirm."
  /\ pendingConfirm
  /\ err # NoErr
  /\ BufferValid

\* the files under root, directories excluded, whose name ends in .age in
\* any letter case
AgeFiles ==
  { p \in FsPaths :
      /\ disk[p].kind \notin {"absent", "dir"}
      /\ Len(Base(p)) >= 2
      /\ Base(p)[Len(Base(p))] \in {"age", "AGE", "Age"} }

\* C37: when the identities or the new recipients cannot be loaded, when the
\* walk returns an error, or when no file named *.age is found, the rotation
\* ends with an error before it decrypts or writes anything: no file is
\* attempted and the disk is as it was.
C37_RotationPreconditions ==
  /\ [][(mode = "rotate" /\ pc = "load" /\ pc' # "load")
          => /\ pc' = IF keyFiles # KeyFilesOk \/ recips = {} \/ identities = {}
                      THEN "done" ELSE "walk"
             /\ pc' = "done" => exitCode' = 1
             /\ disk' = disk /\ fsLog' = <<>> /\ attempts' = <<>>]_vars
  /\ [][(mode = "rotate" /\ pc = "walk" /\ pc' # "walk")
          => /\ AgeFiles = {} => pc' = "done"
             /\ pc' = "done" => exitCode' = 1
             /\ pc' = "loop" => { files'[i] : i \in 1..Len(files') } = AgeFiles
             /\ disk' = disk /\ fsLog' = <<>> /\ attempts' = <<>>]_vars
  /\ []((mode = "rotate" /\ pc = "done" /\ lastEvent \in {"none", "walk"})
          => (disk = disk0 /\ attempts = <<>> /\ ok = 0 /\ exitCode = 1))
  /\ []((mode = "rotate" /\ attempts # <<>>)
          => (keyFiles = KeyFilesOk /\ recips # {} /\ files # <<>>))

\* the walk found only a directory named *.age and a file of another name:
\* the job has ended with an error and an untouched disk
C37_Witness ==
  /\ mode = "rotate"
  /\ pc = "done"
  /\ lastEvent = "walk"
  /\ exitCode = 1
  /\ AgeFiles = {}
  /\ disk[PCfg].kind = "plain"
  /\ disk = disk0

\* the files the previous run of the job re-encrypted
RotatedBefore == { prevJob[j].file : j \in { k \in 1..Len(prevJob) : prevJob[k].ok } }

\* C38: rotation does not check that its identities can open what it writes:
\* a decryptable file is re-encrypted to the new recipients and counted as
\* succeeded whenever the file system does not fail, also when no identity
\* matches a new recipient; a second run of the same job then fails on every
\* file the first run re-encrypted and leaves it as it is. When an identity
\* matches, the second run re-encrypts the same plaintext.
C38_NoLockoutPreflight ==
  /\ []((mode = "rotate" /\ pc = "loop" /\ idx <= Len(files))
          => LET f == files[idx]
                 r == RotateOne(disk, f, identities, recips, "none")
             IN  DecryptToMemory(disk, f, identities).ok
                   => (r.ok /\ r.disk[f] = [kind |-> "armored", pt |-> disk[f].pt,
                                            to |-> recips]))
  /\ [][(mode = "rotate" /\ lastEvent' = "rotate" /\ evParity' # evParity
          /\ Renamed(fsLog'))
          => (ok' = ok + 1 /\ disk'[files[idx]].to = recips)]_vars
  /\ []((mode = "rotate" /\ prevJob # <<>>)
          => \A i \in 1..Len(attempts) :
               LET f == attempts[i].file
               IN  f \in RotatedBefore
                     => IF identities \cap recips = {}
                        THEN ~attempts[i].ok /\ disk[f] = disk0[f]
                        ELSE disk[f].pt = disk0[f].pt)
  /\ []((mode = "rotate" /\ prevJob # <<>> /\ pc = "done" /\ lastEvent = "report")
          => \A f \in RotatedBefore : \E i \in 1..Len(attempts) : attempts[i].file = f)

\* the second run of a job whose identities match no new recipient has failed
\* on a file the first run had re-encrypted
C38_Witness ==
  /\ mode = "rotate"
  /\ pc = "done"
  /\ lastEvent = "report"
  /\ identities \cap recips = {}
  /\ \E i \in 1..Len(attempts) :
       /\ attempts[i].file \in RotatedBefore
       /\ ~attempts[i].ok
       /\ disk[attempts[i].file].to = recips
  /\ exitCode = 1

\* C39: on a target named cfg.json.age a save request never applies the JSON
\* checker: the buffer is refused exactly when it looks like env text and
\* breaks an env rule, and then with an env error; text that is not JSON and
\* holds no "=" passes validation and is committed.
C39_FinalExtensionOnly ==
  /\ [][(/\ lastEvent' = "save" /\ evParity' # evParity
          /\ cfg.FilePath = PJsonAge /\ ~cfg.ViewOnly)
          => /\ status' = "Validation failed; not saved."
                  <=> (LooksEnv /\ Offending # {})
             /\ status' = "Validation failed; not saved."
                  => err'.kind \in {".env parse error", ".env invalid key"}
             /\ (/\ ta = NotJson
                 /\ Preflight(ta, recips, identities, cfg.Armor) = NoErr
                 /\ (ta = orig \/ pendingConfirm))
                  => status' \in {"Saved", "Save failed"}]_vars
  /\ [](cfg.FilePath = PJsonAge => err.kind # "JSON parse error")

\* the file cfg.json.age has been committed with content that is not JSON
C39_Witness ==
  /\ cfg.FilePath = PJsonAge
  /\ lastEvent = "save"
  /\ status = "Saved"
  /\ Renamed(fsLog)
  /\ ta = NotJson
  /\ ta \notin JSONAccepted
  /\ "=" \notin Chars(ta)
  /\ disk[PJsonAge].pt = ta

TypeOK ==
  /\ mode \in {"edit", "rotate", "run"}
  /\ (mode = "edit" /\ pc = "editing")
       => (ta \in Texts /\ orig \in Texts /\ lastSnapshot \in Texts)
  /\ keyFiles \in [ids : KeyFileStates, recips : KeyFileStates]
  /\ ticks \in {0, 1}
  /\ \A p \in FsPaths : disk[p].kind \in {"absent", "dir", "plain", "binary", "armored"}
  /\ evParity \in {0, 1}
  /\ exitCode \in -1..3
  /\ changed \in BOOLEAN /\ pendingConfirm \in BOOLEAN /\ quit \in BOOLEAN

====
